---- MODULE Spec2Model ----
(***************************************************************************)
(* The message gateway of mybot (src/src/core/gateway.py) together with    *)
(* the parts of its collaborators that a routed message goes through:      *)
(* AgentManager.get_agent / Agent.process_message, ChannelManager.         *)
(* send_message and MemoryManager.store_interaction.                       *)
(*                                                                         *)
(* A call of the gateway runs, in one step, from where it is to its end or *)
(* to the next place where it awaits something that yields (an observer    *)
(* that awaits, MemoryManager.store_interaction or health_check, a channel *)
(* call); log holds, in order, every call that step made on observers,     *)
(* handlers and collaborators, and last what the step came to.             *)
(***************************************************************************)
EXTENDS Naturals, Sequences, FiniteSets, TLC

VARIABLES
    initialized,        \* Gateway.initialized
    running,            \* Gateway.running
    stop_called,        \* history: stop() has been called on this gateway
    routing_table,      \* Gateway.routing_table: route key -> handler name
    event_handlers,     \* Gateway.event_handlers: topic -> list of observers
    channel_manager,    \* Gateway.channel_manager (a reference or None)
    agent_manager,      \* Gateway.agent_manager
    memory_manager,     \* Gateway.memory_manager
    agents,             \* AgentManager.agents (the ids)
    interactions,       \* MemoryManager: rows of the interactions table
    interaction_cache,  \* MemoryManager._interaction_cache
    clock,              \* datetime.now(), as a counter
    tasks,              \* the suspended call of each caller
    memory_entries,     \* MemoryManager: rows of the memory_entries table
    memory_cache,       \* MemoryManager._memory_cache
    log,                \* what the last operation called, in order
    last                \* the outcome of the last operation

gwVars   == <<initialized, running, stop_called, routing_table, event_handlers,
              channel_manager, agent_manager, memory_manager>>
entVars  == <<memory_entries, memory_cache>>
memVars  == <<interactions, interaction_cache, clock, tasks,
              memory_entries, memory_cache>>
vars     == <<initialized, running, stop_called, routing_table, event_handlers,
              channel_manager, agent_manager, memory_manager, agents,
              interactions, interaction_cache, clock, tasks,
              memory_entries, memory_cache, log, last>>

----------------------------------------------------------------------------
(* Bounds of the model *)

\* entries one topic's observer list may hold
MaxHandlers == 2

\* observers registered through register_event_handler, over all topics
MaxObservers == 1

\* entries one topic's observer list may hold in SpecEvents
MaxEventHandlers == 3

\* store_interaction calls started in SpecMemory
MaxStores == 2

\* the largest limit asked of get_recent_interactions in SpecMemory and of
\* search_memory in SpecEntries
MaxLimit == 2

\* store_memory and cleanup_expired_entries calls started in SpecEntries
MaxEntryCalls == 2

\* store_interaction, store_memory and cleanup_expired_entries calls started
\* in SpecStores
MaxStoreCalls == 3

----------------------------------------------------------------------------
(* Values *)

\* Python's None
None == "None"

\* a key that a dict does not hold
Absent == "<absent>"

\* dict.get(key): None for a key the dict does not hold
Get(v) == IF v = Absent THEN None ELSE v

\* dict.get(key, default)
GetOr(v, default) == IF v = Absent THEN default ELSE v

\* Python truthiness of an optional string
Truthy(v) == v # Absent /\ v # None /\ v # ""

ChannelManagerRef == "ChannelManager"
AgentManagerRef   == "AgentManager"
MemoryManagerRef  == "MemoryManager"

BuiltinTopics == {"message_received", "message_processed",
                  "agent_response", "error_occurred"}

\* the observers a caller registers: one returns, one raises an Exception
Observers == {"obs_ok", "obs_raise"}

\* an observer that unregisters itself from its topic when it is invoked
OnceObserver == "obs_once"

\* an observer that awaits (asyncio.sleep, a request) before it returns
AwaitingObserver == "obs_await"

\* a topic the gateway does not create: a first registration creates it
CustomTopic == "custom_event"

DefaultHandler(topic) == "_handle_" \o topic

ObserverRaises(h) == h = "obs_raise"

\* an AgentManager on which initialize() was never called: it has no
\* default agent id and no agents
AgentManagerNew == "AgentManager(uninitialized)"

\* AgentManager after initialize()
default_agent_id == "default-agent"
InitialAgents == {"default-agent", "secondary-agent"}

\* ChannelManager.channels after initialize() with the default settings
Channels == {"whatsapp_channel_0", "telegram_channel_1",
             "discord_channel_2", "mock_channel_3"}

\* the agent's response dict and a channel's send results
AgentResponse == "agent_response_dict"
SendSuccess   == "send_result_success_true"
SendNotFound  == "send_result_success_false_channel_not_found"

\* message payloads: the fields the routed code reads
Payload(type, notification_type, content, channel, user_id, channel_id, text, message) ==
    [type |-> type, notification_type |-> notification_type,
     content |-> content, channel |-> channel, user_id |-> user_id,
     channel_id |-> channel_id, text |-> text, message |-> message]

NoPayload ==
    Payload(Absent, Absent, Absent, Absent, Absent, Absent, Absent, Absent)

\* a chat message from user u1 on channel c1
ChatMessage ==
    Payload(Absent, Absent, "hi", "c1", "u1", Absent, Absent, Absent)

\* a chat message whose content is None
ChatContentNone ==
    Payload(Absent, Absent, None, "c1", "u1", Absent, Absent, Absent)

\* a reply for a channel, for an unknown channel, with text None, and with
\* no channel_id
Reply ==
    Payload(Absent, Absent, Absent, Absent, "u1", "mock_channel_3", "hello",
            Absent)

ReplyUnknownChannel ==
    Payload(Absent, Absent, Absent, Absent, "u1", "ghost_channel", "hello",
            Absent)

ReplyTextNone ==
    Payload(Absent, Absent, Absent, Absent, "u1", "mock_channel_3", None,
            Absent)

ReplyNoChannel ==
    Payload(Absent, Absent, Absent, Absent, "u1", Absent, "hello", Absent)

\* replies that carry their text under the key 'message' and have no key
\* 'text': a string, None, and None for an unknown channel; and a reply
\* whose 'text' is a string beside a 'message' of None
ReplyMessage ==
    Payload(Absent, Absent, Absent, Absent, "u1", "mock_channel_3", Absent,
            "hello")

ReplyMessageNone ==
    Payload(Absent, Absent, Absent, Absent, "u1", "mock_channel_3", Absent,
            None)

ReplyMessageNoneUnknownChannel ==
    Payload(Absent, Absent, Absent, Absent, "u1", "ghost_channel", Absent,
            None)

ReplyTextOverMessage ==
    Payload(Absent, Absent, Absent, Absent, "u1", "mock_channel_3", "hello",
            None)

\* internal messages: a notification that names no notification type, the
\* notification of type health_check and the component health check
SystemNotification ==
    Payload("system_notification", Absent, Absent, Absent, Absent, Absent,
            Absent, Absent)

HealthNotification ==
    Payload("system_notification", "health_check", Absent, Absent, Absent,
            Absent, Absent, Absent)

ComponentHealthCheck ==
    Payload("component_health_check", Absent, Absent, Absent, Absent, Absent,
            Absent, Absent)

----------------------------------------------------------------------------
(* Gateway: pure parts *)

\* route_key = f"{source}_to_{destination}"
RouteKey(source, destination) == source \o "_to_" \o destination

BuiltinRoutes ==
    [k \in {"channel_to_agent", "agent_to_channel", "internal_message"} |->
        CASE k = "channel_to_agent" -> "_route_channel_to_agent"
          [] k = "agent_to_channel" -> "_route_agent_to_channel"
          [] OTHER                  -> "_route_internal_message"]

\* an empty dict
EmptyTable == [k \in {} |-> None]

\* dict item assignment for every built-in key
SetupMessageRouting(table) ==
    [k \in DOMAIN table \cup DOMAIN BuiltinRoutes |->
        IF k \in DOMAIN BuiltinRoutes THEN BuiltinRoutes[k] ELSE table[k]]

\* list.append of the default handler on each built-in topic
SetupEventHandlers(handlers) ==
    [t \in DOMAIN handlers |->
        IF t \in BuiltinTopics THEN Append(handlers[t], DefaultHandler(t))
        ELSE handlers[t]]

\* the lifecycle state the two flags stand for; stop_called tells Stopped
\* from Initialized: it records that stop() ran on an initialized gateway
LifecycleState ==
    IF running THEN "Running"
    ELSE IF stop_called THEN "Stopped"
    ELSE IF initialized THEN "Initialized"
    ELSE "Uninitialized"

\* list.remove(h): the first occurrence; ValueError (swallowed) when absent
RemoveFirst_All(seq, h) == SelectSeq(seq, LAMBDA x : x # h)

RECURSIVE RemoveFirst(_, _)
RemoveFirst(seq, h) ==
    IF seq = <<>> THEN <<>>
    ELSE IF Head(seq) = h THEN Tail(seq)
    ELSE <<Head(seq)>> \o RemoveFirst(Tail(seq), h)

RECURSIVE CountIn(_, _)
CountIn(seq, h) ==
    IF seq = <<>> THEN 0
    ELSE (IF Head(seq) = h THEN 1 ELSE 0) + CountIn(Tail(seq), h)

RECURSIVE SumOver(_, _)
SumOver(f, S) ==
    IF S = {} THEN 0
    ELSE LET x == CHOOSE y \in S : TRUE IN f[x] + SumOver(f, S \ {x})

\* how many entries of the observer lists a caller registered
RegisteredObservers ==
    SumOver([t \in DOMAIN event_handlers |->
                Len(event_handlers[t])
                - (IF t \in BuiltinTopics
                   THEN CountIn(event_handlers[t], DefaultHandler(t)) ELSE 0)],
            DOMAIN event_handlers)

----------------------------------------------------------------------------
(* Records of the trace *)

Entry(ev, topic, who, value) ==
    [ev |-> ev, topic |-> topic, who |-> who, value |-> value]

Last(op, pre, key, kind, value) ==
    [op |-> op, pre |-> pre, key |-> key, message_data |-> NoPayload,
     kind |-> kind, value |-> value]

\* the callers of the MemoryManager and of the Gateway, each awaiting at
\* most one call
Tasks == {1, 2}

NoInteraction == [id |-> None, timestamp |-> [type |-> "absent", t |-> 0],
                  source |-> None, user_id |-> None]

NoEntry == [id |-> None, timestamp |-> [type |-> "absent", t |-> 0],
            category |-> None, content |-> <<>>, tags |-> <<>>,
            importance |-> 0, expires_at |-> [type |-> "absent", t |-> 0]]

\* a caller that awaits nothing
IdleTask ==
    [op |-> "idle", pc |-> "idle", interaction |-> NoInteraction,
     db_ok |-> TRUE, user_id |-> None, limit |-> 0, cached |-> <<>>,
     kind |-> "none", value |-> None, result |-> <<>>,
     entry |-> NoEntry, query |-> <<>>, category |-> None,
     expired_ids |-> {}, now |-> 0, key |-> None, message_data |-> NoPayload,
     interaction_count |-> 0, memory_count |-> 0, topic |-> None, idx |-> 0]

Init ==
    /\ initialized = FALSE
    /\ running = FALSE
    /\ stop_called = FALSE
    /\ routing_table = EmptyTable
    /\ event_handlers = [t \in BuiltinTopics |-> <<>>]
    /\ channel_manager = None
    /\ agent_manager = None
    /\ memory_manager = None
    /\ agents = InitialAgents
    /\ interactions = {}
    /\ interaction_cache = <<>>
    /\ clock = 0
    /\ tasks = [t \in Tasks |-> IdleTask]
    /\ memory_entries = {}
    /\ memory_cache = <<>>
    /\ log = <<>>
    /\ last = Last("__init__", "Uninitialized", None, "return", None)

----------------------------------------------------------------------------
(* MemoryManager: the interactions table and the recency cache *)

\* the capacity of _interaction_cache
CacheCapacity == 100

Timestamp(type, t) == [type |-> type, t |-> t]

NoTimestamp == Timestamp("absent", 0)

Interaction(id, timestamp, source, user_id) ==
    [id |-> id, timestamp |-> timestamp, source |-> source, user_id |-> user_id]

\* a row of the interactions table: the columns the model keeps and the
\* rowid SQLite gives the row, which keeps rows of one id (NULL) apart
InteractionRow(interaction, rowid) ==
    [id |-> interaction.id, timestamp |-> interaction.timestamp,
     source |-> interaction.source, user_id |-> interaction.user_id,
     rowid |-> rowid]

\* Interaction(id=row[0], ...): the object built from a row read
AsInteraction(row) ==
    Interaction(row.id, row.timestamp, row.source, row.user_id)

\* the objects built from the rows of a cursor, in its order
InteractionsOf(rows) == [k \in 1..Len(rows) |-> AsInteraction(rows[k])]

\* the rowid of the next row inserted: one more than the largest in use
NextRowid(table) ==
    IF table = {} THEN 1
    ELSE 1 + (CHOOSE x \in {r.rowid : r \in table} :
                 \A r \in table : r.rowid <= x)

\* the position of the first entry of the non-empty list with the smallest
\* timestamp: sorted() is stable, so sorted_ids.pop(0) is that entry's id
Oldest(cache) ==
    CHOOSE i \in 1..Len(cache) :
        /\ \A j \in 1..Len(cache) : cache[i].timestamp.t <= cache[j].timestamp.t
        /\ \A j \in 1..(i - 1) : cache[j].timestamp.t # cache[i].timestamp.t

\* the list without its entry at position i
RemoveAt(seq, i) == SubSeq(seq, 1, i - 1) \o SubSeq(seq, i + 1, Len(seq))

\* `while len(self._interaction_cache) > 100`: delete the oldest
RECURSIVE EvictToCapacity(_)
EvictToCapacity(cache) ==
    IF Len(cache) > CacheCapacity
    THEN EvictToCapacity(RemoveAt(cache, Oldest(cache)))
    ELSE cache

\* sorting by timestamp raises TypeError when a datetime without tzinfo
\* ("datetime") is compared with one that has it ("aware")
SortFails(seq) ==
    \E i \in 2..Len(seq) : seq[i].timestamp.type # seq[1].timestamp.type

\* self._interaction_cache[interaction.id] = interaction: a dict keeps the
\* place of a key it already holds
Inserted(cache, interaction) ==
    IF \E i \in 1..Len(cache) : cache[i].id = interaction.id
    THEN [i \in 1..Len(cache) |->
             IF cache[i].id = interaction.id THEN interaction ELSE cache[i]]
    ELSE Append(cache, interaction)

\* the exception `Maintain cache size` ends with on the cache after the
\* insert, or None: sorted() is called only above the capacity
EvictionError(cache) ==
    IF Len(cache) > CacheCapacity /\ SortFails(cache) THEN "TypeError"
    ELSE None

\* the cache after the insert and the eviction; when sorted() raises,
\* nothing is deleted
CacheInsert(cache, interaction) ==
    IF EvictionError(Inserted(cache, interaction)) # None
    THEN Inserted(cache, interaction)
    ELSE EvictToCapacity(Inserted(cache, interaction))

\* what the timestamp bound to the INSERT evaluates to: isoformat() exists
\* on a datetime, with tzinfo or without, and not on a str
TimestampIsoformatFails(timestamp) ==
    timestamp.type \notin {"datetime", "aware"}

\* the Interaction store_interaction builds from interaction_data at `now`
NewInteraction(data, now) ==
    Interaction(GetOr(data.id, "int_" \o ToString(now)),
                IF data.timestamp.type = "absent"
                THEN Timestamp("datetime", now) ELSE data.timestamp,
                GetOr(data.source, "unknown"),
                GetOr(data.user_id, "unknown"))

\* the exception the INSERT and commit end with, or None: the database
\* unreachable, the timestamp without isoformat(), the id already there
\* (TEXT PRIMARY KEY, which admits any number of rows whose id is NULL), or
\* source / user_id None (NOT NULL)
WriteError(interaction, db_ok, table) ==
    IF ~db_ok THEN "OperationalError"
    ELSE IF TimestampIsoformatFails(interaction.timestamp)
         THEN "AttributeError"
    ELSE IF \/ /\ interaction.id # None
               /\ \E i \in table : i.id = interaction.id
            \/ interaction.source = None
            \/ interaction.user_id = None
         THEN "IntegrityError"
    ELSE None

\* the rows of the table after the INSERT ended with exc
TableAfterWrite_NoRollback(table, interaction, exc) ==
    table \cup {InteractionRow(interaction, NextRowid(table))}

TableAfterWrite(table, interaction, exc) ==
    IF exc = None
    THEN table \cup {InteractionRow(interaction, NextRowid(table))}
    ELSE table

\* MemoryManager.store_interaction(interaction_data) at time `now`, with the
\* database reachable (db_ok) or not, run to its end: the exception it
\* raises, or None, and the table and cache it leaves
StoreInteraction(data, now, db_ok, table, cache) ==
    LET interaction == NewInteraction(data, now)
        raised == WriteError(interaction, db_ok, table)
    IN  [exc |-> IF raised # None THEN raised
                 ELSE EvictionError(Inserted(cache, interaction)),
         table |-> TableAfterWrite(table, interaction, raised),
         cache |-> IF raised # None THEN cache
                   ELSE CacheInsert(cache, interaction)]

\* the dict _route_channel_to_agent hands to store_interaction: it names no
\* id and no user_id, and its timestamp is datetime.now().isoformat(), a str
GatewayInteractionData(message_data, now) ==
    [id |-> Absent, timestamp |-> Timestamp("str", now),
     source |-> Get(message_data.channel), user_id |-> Absent]

\* the position of the first entry of the non-empty list with the largest
\* timestamp
Newest(seq) ==
    CHOOSE i \in 1..Len(seq) :
        /\ \A j \in 1..Len(seq) : seq[j].timestamp.t <= seq[i].timestamp.t
        /\ \A j \in 1..(i - 1) : seq[j].timestamp.t # seq[i].timestamp.t

\* sorted(..., key = timestamp, reverse = True)[:limit]: the sort is stable,
\* entries with equal timestamps keep their order
RECURSIVE TopStable(_, _)
TopStable(seq, limit) ==
    IF seq = <<>> \/ limit = 0 THEN <<>>
    ELSE <<seq[Newest(seq)]>>
         \o TopStable(RemoveAt(seq, Newest(seq)), limit - 1)

\* the rows with timestamps in lo..hi ordered by timestamp descending, at
\* most `limit` of them, in every order rows of one timestamp may come in:
\* the newer half of the range comes before the older half
RECURSIVE TopChoicesIn(_, _, _, _)
TopChoicesIn(rows, limit, lo, hi) ==
    IF rows = {} \/ limit = 0 THEN {<<>>}
    ELSE IF lo = hi
    THEN UNION { { <<m>> \o rest :
                     rest \in TopChoicesIn(rows \ {m}, limit - 1, lo, hi) } :
                 m \in rows }
    ELSE LET mid == (lo + hi) \div 2
             newer == {r \in rows : r.timestamp.t > mid}
         IN  IF Cardinality(newer) >= limit
             THEN TopChoicesIn(newer, limit, mid + 1, hi)
             ELSE { a \o b :
                      a \in TopChoicesIn(newer, limit, mid + 1, hi),
                      b \in TopChoicesIn(rows \ newer,
                                         limit - Cardinality(newer), lo, mid) }

\* SELECT ... ORDER BY timestamp DESC LIMIT limit: every answer the
\* database may give, rows with equal timestamps coming in any order
TopChoices(rows, limit) ==
    IF rows = {} THEN {<<>>}
    ELSE LET times == {r.timestamp.t : r \in rows}
         IN  TopChoicesIn(rows, limit,
                 CHOOSE x \in times : \A y \in times : x <= y,
                 CHOOSE x \in times : \A y \in times : y <= x)

\* get_recent_interactions(user_id, limit) with a user_id: the answers the
\* SELECT may give, as the objects built from the rows
GetRecentInteractionsForUser(user_id, limit) ==
    { InteractionsOf(rows) :
        rows \in TopChoices({i \in interactions : i.user_id = user_id}, limit) }

\* WHERE id NOT IN (the ids of cached): true of every row for an empty
\* list; for a list that holds NULL true of no row; and never true of a
\* row whose id is NULL
ExcludeIds(rows, cached) ==
    IF cached = <<>> THEN rows
    ELSE IF \E k \in 1..Len(cached) : cached[k].id = None THEN {}
    ELSE {i \in rows : /\ i.id # None
                       /\ \A k \in 1..Len(cached) : cached[k].id # i.id}

\* the SELECT of _load_recent_to_cache on interactions: the answers the
\* database may give, the newest CacheCapacity rows, newest first, as the
\* objects built from them
LoadRecentToCache(table) ==
    { InteractionsOf(rows) : rows \in TopChoices(table, CacheCapacity) }

----------------------------------------------------------------------------
(* MemoryManager: store_interaction and get_recent_interactions, one step
   per stretch of code between two suspension points *)

\* store_interaction, to the first await: the Interaction is built
store_begin(t, data) ==
    /\ tasks[t].pc \in {"idle", "done"}
    /\ clock' = clock + 1
    /\ tasks' = [tasks EXCEPT ![t] =
                    [IdleTask EXCEPT !.op = "store", !.pc = "insert",
                        !.interaction = NewInteraction(data, clock + 1)]]
    /\ UNCHANGED <<gwVars, agents, interactions, interaction_cache, entVars,
                   log, last>>

\* the INSERT and the commit, the database reachable or not; a failure is
\* logged and re-raised
store_write(t, db_ok) ==
    /\ tasks[t].op = "store" /\ tasks[t].pc = "insert"
    /\ LET exc == WriteError(tasks[t].interaction, db_ok, interactions)
       IN  /\ interactions' =
                 TableAfterWrite(interactions, tasks[t].interaction, exc)
           /\ tasks' = [tasks EXCEPT ![t] =
                 IF exc = None
                 THEN [@ EXCEPT !.pc = "cache", !.db_ok = db_ok]
                 ELSE [@ EXCEPT !.pc = "done", !.db_ok = db_ok,
                                !.kind = "raise", !.value = exc]]
    /\ UNCHANGED <<gwVars, agents, interaction_cache, clock, entVars, log,
                   last>>

\* after the connection is closed: the cache insert and the eviction, with
\* no await between them; an exception of the eviction is logged and
\* re-raised
store_cache(t) ==
    /\ tasks[t].op = "store" /\ tasks[t].pc = "cache"
    /\ interaction_cache' = CacheInsert(interaction_cache, tasks[t].interaction)
    /\ LET exc == EvictionError(Inserted(interaction_cache,
                                         tasks[t].interaction))
       IN  tasks' = [tasks EXCEPT ![t] =
                IF exc = None
                THEN [@ EXCEPT !.pc = "done", !.kind = "return"]
                ELSE [@ EXCEPT !.pc = "done", !.kind = "raise",
                               !.value = exc]]
    /\ UNCHANGED <<gwVars, agents, interactions, clock, entVars, log, last>>

\* get_recent_interactions(user_id, limit), to the first await: with a
\* user_id nothing is read yet; without, the cache is sorted, its newest are
\* taken and the call ends here when they fill the limit
get_begin(t, user_id, limit) ==
    /\ tasks[t].pc \in {"idle", "done"}
    /\ LET call == [IdleTask EXCEPT !.op = "get", !.user_id = user_id,
                                    !.limit = limit]
           cached == TopStable(interaction_cache, limit)
       IN  tasks' = [tasks EXCEPT ![t] =
              IF Truthy(user_id)
              THEN [call EXCEPT !.pc = "select_user"]
              ELSE IF SortFails(interaction_cache)
              THEN [call EXCEPT !.pc = "done", !.kind = "raise",
                                !.value = "TypeError"]
              ELSE IF limit - Len(cached) > 0
              THEN [call EXCEPT !.pc = "select_rest", !.cached = cached]
              ELSE [call EXCEPT !.pc = "done", !.cached = cached,
                       !.kind = "return",
                       !.result = TopStable(cached, limit)]]
    /\ UNCHANGED <<gwVars, agents, interactions, interaction_cache, clock,
                   entVars, log, last>>

\* the SELECT of get_recent_interactions and what follows it: the rows of
\* the user, or the rows the cache did not give, put before the cached
\* ones, sorted and cut to the limit
get_select(t, db_ok) ==
    /\ tasks[t].op = "get" /\ tasks[t].pc \in {"select_user", "select_rest"}
    /\ IF ~db_ok
       THEN tasks' = [tasks EXCEPT ![t] =
                [@ EXCEPT !.pc = "done", !.db_ok = db_ok, !.kind = "raise",
                          !.value = "OperationalError"]]
       ELSE \E rows \in
                IF tasks[t].pc = "select_user"
                THEN GetRecentInteractionsForUser(tasks[t].user_id,
                                                  tasks[t].limit)
                ELSE { InteractionsOf(rest) :
                         rest \in TopChoices(
                                    ExcludeIds(interactions, tasks[t].cached),
                                    tasks[t].limit - Len(tasks[t].cached)) } :
              tasks' = [tasks EXCEPT ![t] =
                IF tasks[t].pc = "select_user"
                THEN [@ EXCEPT !.pc = "done", !.kind = "return",
                               !.result = rows]
                ELSE IF SortFails(rows \o tasks[t].cached)
                THEN [@ EXCEPT !.pc = "done", !.kind = "raise",
                               !.value = "TypeError"]
                ELSE [@ EXCEPT !.pc = "done", !.kind = "return",
                               !.result = TopStable(rows \o tasks[t].cached,
                                                    tasks[t].limit)]]
    /\ UNCHANGED <<gwVars, agents, interactions, interaction_cache, clock,
                   entVars, log, last>>

\* MemoryManager.close(): both caches are cleared, the database is kept
memory_close(t) ==
    /\ tasks[t].pc \in {"idle", "done"}
    /\ interaction_cache' = <<>>
    /\ memory_cache' = <<>>
    /\ tasks' = [tasks EXCEPT ![t] =
                    [IdleTask EXCEPT !.op = "close", !.pc = "done",
                                     !.kind = "return"]]
    /\ UNCHANGED <<gwVars, agents, interactions, clock, memory_entries,
                   log, last>>

\* the dicts callers hand to store_interaction: one without id and
\* timestamp, two with the same timestamp, one with a str timestamp and one
\* with a datetime that has tzinfo
InteractionData(id, timestamp, source, user_id) ==
    [id |-> id, timestamp |-> timestamp, source |-> source, user_id |-> user_id]

StoreRequests ==
    { InteractionData(Absent, NoTimestamp, "c1", "u1"),
      InteractionData("i1", Timestamp("datetime", 50), "c1", "u2"),
      InteractionData("i2", Timestamp("datetime", 50), "c1", "u1"),
      InteractionData(Absent, Timestamp("str", 50), "c1", Absent),
      InteractionData("i3", Timestamp("aware", 60), "c1", "u1") }

\* the calls of get_recent_interactions: every limit without a user_id, one
\* call with a user_id; they come from one of the two tasks
GetRequests == { <<None, n>> : n \in 0..MaxLimit } \cup { <<"u1", 1>> }

Readers == {2}

\* rows an earlier run left in the database, one short of the cache's
\* capacity, with timestamps 1, 2, ...
PreloadedRows ==
    { InteractionRow(Interaction("old_" \o ToString(k),
                                 Timestamp("datetime", k), "c0", "u0"), k) :
          k \in 1..(CacheCapacity - 1) }

\* a MemoryManager after initialize(), on a new database or on one that
\* holds rows
InitMemory ==
    /\ initialized = FALSE
    /\ running = FALSE
    /\ stop_called = FALSE
    /\ routing_table = EmptyTable
    /\ event_handlers = [t \in BuiltinTopics |-> <<>>]
    /\ channel_manager = None
    /\ agent_manager = None
    /\ memory_manager = None
    /\ agents = InitialAgents
    /\ interactions \in {{}, PreloadedRows}
    /\ interaction_cache \in LoadRecentToCache(interactions)
    /\ clock = CacheCapacity
    /\ tasks = [t \in Tasks |-> IdleTask]
    /\ memory_entries = {}
    /\ memory_cache = <<>>
    /\ log = <<>>
    /\ last = Last("__init__", "Uninitialized", None, "return", None)

NextMemory ==
    \/ \E t \in Tasks, d \in StoreRequests :
          /\ clock < CacheCapacity + MaxStores
          /\ store_begin(t, d)
    \/ \E t \in Tasks, db_ok \in BOOLEAN : store_write(t, db_ok)
    \/ \E t \in Tasks : store_cache(t)
    \/ \E t \in Readers, r \in GetRequests : get_begin(t, r[1], r[2])
    \/ \E t \in Tasks, db_ok \in BOOLEAN : get_select(t, db_ok)
    \/ \E t \in Tasks \ Readers : memory_close(t)

SpecMemory == InitMemory /\ [][NextMemory]_vars

----------------------------------------------------------------------------
(* MemoryManager: memory entries.  A text is the sequence of its
   characters ("A-umlaut" and "a-umlaut" stand for the two letters outside
   ASCII); an importance is counted in tenths (9 is 0.9); a time is
   counted in ticks, TicksPerSecond to the second. *)

TicksPerSecond == 4

\* `importance > 0.7`, in tenths
ImportantThreshold == 7

\* importance=memory_data.get('importance', 0.5), in tenths
DefaultImportance == 5

\* LIMIT 50 of the important-entry load
MemoryCacheLoadLimit == 50

MemoryEntry(id, timestamp, category, content, tags, importance, expires_at) ==
    [id |-> id, timestamp |-> timestamp, category |-> category,
     content |-> content, tags |-> tags, importance |-> importance,
     expires_at |-> expires_at]

\* a row of the memory_entries table, with its rowid
EntryRow(entry, rowid) ==
    [id |-> entry.id, timestamp |-> entry.timestamp,
     category |-> entry.category, content |-> entry.content,
     tags |-> entry.tags, importance |-> entry.importance,
     expires_at |-> entry.expires_at, rowid |-> rowid]

\* MemoryEntry(id=row[0], ...): the object built from a row read (isoformat
\* / fromisoformat and json.dumps / json.loads give back what they were
\* given)
AsMemoryEntry(row) ==
    MemoryEntry(row.id, row.timestamp, row.category, row.content, row.tags,
                row.importance, row.expires_at)

EntriesOf(rows) == [k \in 1..Len(rows) |-> AsMemoryEntry(rows[k])]

\* the characters str.lower() changes, among those the model's texts use
Lower(c) ==
    IF c = "H" THEN "h" ELSE IF c = "A-umlaut" THEN "a-umlaut" ELSE c

\* LIKE folds the case of ASCII letters only
AsciiLower(c) == IF c = "H" THEN "h" ELSE c

LowerText(text) == [i \in 1..Len(text) |-> Lower(text[i])]

\* `sub in text`
Contains(sub, text) ==
    \E i \in 1..(Len(text) - Len(sub) + 1) :
        SubSeq(text, i, i + Len(sub) - 1) = sub

\* ' '.join(tags)
RECURSIVE JoinTags(_)
JoinTags(tags) ==
    IF tags = <<>> THEN <<>>
    ELSE IF Len(tags) = 1 THEN tags[1]
    ELSE tags[1] \o <<" ">> \o JoinTags(Tail(tags))

\* json.dumps of one str: quoted, a character outside ASCII escaped
RECURSIVE JsonString(_)
JsonString(text) ==
    IF text = <<>> THEN <<>>
    ELSE (IF Head(text) = "a-umlaut" THEN <<"\\", "u", "0", "0", "e", "4">>
          ELSE IF Head(text) = "A-umlaut" THEN <<"\\", "u", "0", "0", "c", "4">>
          ELSE <<Head(text)>>)
         \o JsonString(Tail(text))

RECURSIVE JsonItems(_)
JsonItems(tags) ==
    IF tags = <<>> THEN <<>>
    ELSE <<"\"">> \o JsonString(tags[1]) \o <<"\"">>
         \o (IF Len(tags) = 1 THEN <<>> ELSE <<",", " ">>)
         \o JsonItems(Tail(tags))

\* json.dumps(memory_entry.tags), the text of the tags column
JsonDumps(tags) == <<"[">> \o JsonItems(tags) \o <<"]">>

\* text LIKE pattern: % is any run of characters, _ any one character
RECURSIVE Like(_, _)
Like(text, pattern) ==
    IF pattern = <<>> THEN text = <<>>
    ELSE IF Head(pattern) = "%"
         THEN \/ Like(text, Tail(pattern))
              \/ text # <<>> /\ Like(Tail(text), pattern)
    ELSE /\ text # <<>>
         /\ \/ Head(pattern) = "_"
            \/ AsciiLower(Head(pattern)) = AsciiLower(Head(text))
         /\ Like(Tail(text), Tail(pattern))

\* the test search_memory makes on an entry of the cache
CacheMatches(entry, query, category) ==
    /\ ~(Truthy(category) /\ entry.category # category)
    /\ \/ Contains(LowerText(query), LowerText(entry.content))
       \/ Contains(LowerText(query), LowerText(JoinTags(entry.tags)))

\* the WHERE clause search_memory builds, on a row of memory_entries
RowMatches(row, query, category) ==
    /\ \/ Like(row.content, <<"%">> \o query \o <<"%">>)
       \/ Like(JsonDumps(row.tags), <<"%">> \o query \o <<"%">>)
    /\ Truthy(category) => row.category = category

\* memory_data.get('importance', 0.5): the dict holds the importance, as
\* a list of one number, or does not
ImportanceOr(v, default) == IF v = <<>> THEN default ELSE v[1]

\* the MemoryEntry store_memory builds from memory_data at `now`
NewMemoryEntry(data, now) ==
    MemoryEntry(GetOr(data.id, "mem_" \o ToString(now)),
                IF data.timestamp.type = "absent"
                THEN Timestamp("datetime", now) ELSE data.timestamp,
                GetOr(data.category, "general"),
                data.content, data.tags,
                ImportanceOr(data.importance, DefaultImportance),
                data.expires_at)

\* the exception the INSERT and commit of store_memory end with, or None
EntryWriteError(entry, db_ok, table) ==
    IF ~db_ok THEN "OperationalError"
    ELSE IF \/ TimestampIsoformatFails(entry.timestamp)
            \/ /\ entry.expires_at.type # "absent"
               /\ TimestampIsoformatFails(entry.expires_at)
         THEN "AttributeError"
    ELSE IF \/ entry.id # None /\ \E r \in table : r.id = entry.id
            \/ entry.category = None
         THEN "IntegrityError"
    ELSE None

\* `if memory_entry.importance > 0.7`
IsImportant(entry) == entry.importance > ImportantThreshold

\* the important-entry cache after a successful write of the entry
MemoryCacheAfterStore(cache, entry) ==
    IF IsImportant(entry) THEN Inserted(cache, entry) ELSE cache

\* ORDER BY importance DESC, timestamp DESC on the stored columns: the
\* timestamp is compared as ISO text, where a text with a UTC offset
\* follows the same text without one
SqlRanksBefore(x, y) ==
    \/ x.importance > y.importance
    \/ /\ x.importance = y.importance
       /\ \/ x.timestamp.t > y.timestamp.t
          \/ /\ x.timestamp.t = y.timestamp.t
             /\ (y.timestamp.type = "aware" => x.timestamp.type = "aware")

\* SELECT ... ORDER BY importance DESC, timestamp DESC LIMIT limit: every
\* answer the database may give
RECURSIVE SqlTopEntries(_, _)
SqlTopEntries(rows, limit) ==
    IF rows = {} \/ limit = 0 THEN {<<>>}
    ELSE UNION { { <<m>> \o rest : rest \in SqlTopEntries(rows \ {m}, limit - 1) } :
                 m \in {x \in rows : \A y \in rows : SqlRanksBefore(x, y)} }

\* the key (importance, timestamp) of x is greater than that of y
KeyGreater(x, y) ==
    \/ x.importance > y.importance
    \/ x.importance = y.importance /\ x.timestamp.t > y.timestamp.t

\* results.sort(key = (importance, timestamp)) raises TypeError when two
\* entries of equal importance carry datetimes with and without tzinfo
EntrySortFails(results) ==
    \E i, j \in 1..Len(results) :
        /\ results[i].importance = results[j].importance
        /\ results[i].timestamp.type # results[j].timestamp.type

\* the position of the first entry of the non-empty list with the greatest
\* key
Best(results) ==
    CHOOSE i \in 1..Len(results) :
        /\ \A j \in 1..Len(results) : ~KeyGreater(results[j], results[i])
        /\ \A j \in 1..(i - 1) : KeyGreater(results[i], results[j])

\* results.sort(key = ..., reverse = True); results[:limit]: the sort is
\* stable
RECURSIVE SortedByRelevance(_, _)
SortedByRelevance(results, limit) ==
    IF results = <<>> \/ limit = 0 THEN <<>>
    ELSE <<results[Best(results)]>>
         \o SortedByRelevance(RemoveAt(results, Best(results)), limit - 1)

\* the entries of the cache search_memory takes, in the cache's order
RECURSIVE CacheHits(_, _, _)
CacheHits(cache, query, category) ==
    IF cache = <<>> THEN <<>>
    ELSE (IF CacheMatches(Head(cache), query, category)
          THEN <<Head(cache)>> ELSE <<>>)
         \o CacheHits(Tail(cache), query, category)

\* results.append(memory_entry) without the test for its id
AppendUnlessPresent_Always(results, memory_entry) ==
    Append(results, memory_entry)

\* if not any(r.id == memory_entry.id for r in results):
\*     results.append(memory_entry)
AppendUnlessPresent(results, memory_entry) ==
    IF \E k \in 1..Len(results) : results[k].id = memory_entry.id
    THEN results ELSE Append(results, memory_entry)

\* the rows read, each appended to the results unless a result has its id
RECURSIVE AppendNew(_, _)
AppendNew(results, rows) ==
    IF rows = <<>> THEN results
    ELSE AppendNew(AppendUnlessPresent(results, Head(rows)), Tail(rows))

\* the rows _load_recent_to_cache reads from memory_entries
LoadsIntoMemoryCache(row) ==
    row.importance > ImportantThreshold \/ row.expires_at.type = "absent"

\* datetime(text), SQLite's: the time in whole seconds
SqlDatetime(timestamp) == timestamp.t \div TicksPerSecond

\* the ids cleanup_expired_entries selects at `now`
ExpiredIds(table, now) ==
    { r.id : r \in { x \in table :
                        /\ x.expires_at.type # "absent"
                        /\ SqlDatetime(x.expires_at)
                             < now \div TicksPerSecond } }

\* self._memory_cache.pop(exp_id, None) for each expired id
WithoutIds(cache, ids) == SelectSeq(cache, LAMBDA e : e.id \notin ids)

\* store_memory, to the first await: the MemoryEntry is built
store_memory_begin(t, data) ==
    /\ tasks[t].pc \in {"idle", "done"}
    /\ clock' = clock + 1
    /\ tasks' = [tasks EXCEPT ![t] =
                    [IdleTask EXCEPT !.op = "store_memory", !.pc = "insert",
                        !.entry = NewMemoryEntry(data, clock + 1)]]
    /\ UNCHANGED <<gwVars, agents, interactions, interaction_cache, entVars,
                   log, last>>

\* the INSERT and the commit of store_memory; a failure is logged and
\* re-raised
store_memory_write(t, db_ok) ==
    /\ tasks[t].op = "store_memory" /\ tasks[t].pc = "insert"
    /\ LET exc == EntryWriteError(tasks[t].entry, db_ok, memory_entries)
       IN  /\ memory_entries' = IF exc = None
                                THEN memory_entries
                                     \cup {EntryRow(tasks[t].entry,
                                               NextRowid(memory_entries))}
                                ELSE memory_entries
           /\ tasks' = [tasks EXCEPT ![t] =
                 IF exc = None
                 THEN [@ EXCEPT !.pc = "cache", !.db_ok = db_ok]
                 ELSE [@ EXCEPT !.pc = "done", !.db_ok = db_ok,
                                !.kind = "raise", !.value = exc]]
    /\ UNCHANGED <<gwVars, agents, interactions, interaction_cache, clock,
                   memory_cache, log, last>>

\* after the connection is closed: `Add to cache if important`
store_memory_cache(t) ==
    /\ tasks[t].op = "store_memory" /\ tasks[t].pc = "cache"
    /\ memory_cache' = MemoryCacheAfterStore(memory_cache, tasks[t].entry)
    /\ tasks' = [tasks EXCEPT ![t] = [@ EXCEPT !.pc = "done", !.kind = "return"]]
    /\ UNCHANGED <<gwVars, agents, interactions, interaction_cache, clock,
                   memory_entries, log, last>>

\* search_memory(query, category, limit), to the first await: the scan of
\* the cache (now records the time of the call; the code does not read it)
search_memory_begin(t, query, category, limit) ==
    /\ tasks[t].pc \in {"idle", "done"}
    /\ tasks' = [tasks EXCEPT ![t] =
                    [IdleTask EXCEPT !.op = "search_memory", !.pc = "select",
                        !.query = query, !.category = category,
                        !.limit = limit, !.now = clock,
                        !.cached = CacheHits(memory_cache, query, category)]]
    /\ UNCHANGED <<gwVars, agents, interactions, interaction_cache, clock,
                   entVars, log, last>>

\* the SELECT of search_memory and what follows it: the rows not among the
\* cache hits are appended, the results sorted and cut to the limit
search_memory_select(t, db_ok) ==
    /\ tasks[t].op = "search_memory" /\ tasks[t].pc = "select"
    /\ IF ~db_ok
       THEN tasks' = [tasks EXCEPT ![t] =
                [@ EXCEPT !.pc = "done", !.db_ok = db_ok, !.kind = "raise",
                          !.value = "OperationalError"]]
       ELSE \E rows \in SqlTopEntries(
                           {r \in memory_entries :
                               RowMatches(r, tasks[t].query, tasks[t].category)},
                           tasks[t].limit) :
              tasks' = [tasks EXCEPT ![t] =
                IF EntrySortFails(AppendNew(tasks[t].cached, EntriesOf(rows)))
                THEN [@ EXCEPT !.pc = "done", !.kind = "raise",
                               !.value = "TypeError"]
                ELSE [@ EXCEPT !.pc = "done", !.kind = "return",
                               !.result = SortedByRelevance(
                                              AppendNew(tasks[t].cached,
                                                        EntriesOf(rows)),
                                              tasks[t].limit)]]
    /\ UNCHANGED <<gwVars, agents, interactions, interaction_cache, clock,
                   entVars, log, last>>

\* cleanup_expired_entries, to its first await: now is read before the
\* database is opened (cached records the cache as the call found it; the
\* code keeps no such copy)
cleanup_begin(t) ==
    /\ tasks[t].pc \in {"idle", "done"}
    /\ clock' = clock + 1
    /\ tasks' = [tasks EXCEPT ![t] =
          [IdleTask EXCEPT !.op = "cleanup_expired_entries", !.pc = "select",
                           !.now = clock + 1, !.cached = memory_cache]]
    /\ UNCHANGED <<gwVars, agents, interactions, interaction_cache, entVars,
                   log, last>>

\* the connection and the SELECT: the ids of the rows that expired before
\* the now read earlier are listed as the table holds them at this step;
\* with none the call ends
cleanup_select(t, db_ok) ==
    /\ tasks[t].op = "cleanup_expired_entries" /\ tasks[t].pc = "select"
    /\ LET expired_ids == ExpiredIds(memory_entries, tasks[t].now)
       IN  tasks' = [tasks EXCEPT ![t] =
              IF ~db_ok
              THEN [@ EXCEPT !.pc = "done", !.db_ok = db_ok, !.kind = "raise",
                             !.value = "OperationalError"]
              ELSE IF expired_ids = {}
              THEN [@ EXCEPT !.pc = "done", !.kind = "return"]
              ELSE [@ EXCEPT !.pc = "delete", !.expired_ids = expired_ids]]
    /\ UNCHANGED <<gwVars, agents, interactions, interaction_cache, clock,
                   entVars, log, last>>

\* the DELETE, not yet committed, and after it the pops from the cache
cleanup_delete(t, db_ok) ==
    /\ tasks[t].op = "cleanup_expired_entries" /\ tasks[t].pc = "delete"
    /\ memory_cache' = IF db_ok
                       THEN WithoutIds(memory_cache, tasks[t].expired_ids)
                       ELSE memory_cache
    /\ tasks' = [tasks EXCEPT ![t] =
          IF db_ok THEN [@ EXCEPT !.pc = "commit"]
          ELSE [@ EXCEPT !.pc = "done", !.db_ok = db_ok, !.kind = "raise",
                         !.value = "OperationalError"]]
    /\ UNCHANGED <<gwVars, agents, interactions, interaction_cache, clock,
                   memory_entries, log, last>>

\* the commit of the DELETE: when it fails the connection is closed with
\* the transaction open, which rolls the DELETE back; `id IN (...)` is
\* true of no row whose id is NULL
cleanup_commit(t, db_ok) ==
    /\ tasks[t].op = "cleanup_expired_entries" /\ tasks[t].pc = "commit"
    /\ memory_entries' = IF db_ok
                         THEN {r \in memory_entries :
                                  r.id = None
                                  \/ r.id \notin tasks[t].expired_ids}
                         ELSE memory_entries
    /\ tasks' = [tasks EXCEPT ![t] =
          IF db_ok THEN [@ EXCEPT !.pc = "done", !.kind = "return"]
          ELSE [@ EXCEPT !.pc = "done", !.db_ok = db_ok, !.kind = "raise",
                         !.value = "OperationalError"]]
    /\ UNCHANGED <<gwVars, agents, interactions, interaction_cache, clock,
                   memory_cache, log, last>>

\* the report with the interaction cache alone as cache_size
HealthReport_InteractionCacheOnly(db_ok, interaction_count, memory_count, recent, important) ==
    IF db_ok
    THEN [status |-> "healthy",
          interactions_count |-> interaction_count,
          memory_entries_count |-> memory_count,
          cache_size |-> Len(recent)]
    ELSE [status |-> "error", error |-> "OperationalError"]

\* what MemoryManager.health_check returns
HealthReport(db_ok, interaction_count, memory_count, recent, important) ==
    IF db_ok
    THEN [status |-> "healthy",
          interactions_count |-> interaction_count,
          memory_entries_count |-> memory_count,
          cache_size |-> Len(recent) + Len(important)]
    ELSE [status |-> "error", error |-> "OperationalError"]

\* MemoryManager.health_check(), to the end of its first SELECT:
\* interaction_count is read; an exception ends the call with the report
\* of an error
memory_health_check(t, db_ok) ==
    /\ tasks[t].pc \in {"idle", "done"}
    /\ LET call == [IdleTask EXCEPT !.op = "health_check", !.db_ok = db_ok]
       IN  tasks' = [tasks EXCEPT ![t] =
              IF db_ok
              THEN [call EXCEPT !.pc = "count_entries",
                       !.interaction_count = Cardinality(interactions)]
              ELSE [call EXCEPT !.pc = "done", !.kind = "return",
                       !.result = <<HealthReport(FALSE, 0, 0, <<>>, <<>>)>>]]
    /\ UNCHANGED <<gwVars, agents, interactions, interaction_cache, clock,
                   entVars, log, last>>

\* the second SELECT of health_check: memory_count is read
health_count_entries(t, db_ok) ==
    /\ tasks[t].op = "health_check" /\ tasks[t].pc = "count_entries"
    /\ tasks' = [tasks EXCEPT ![t] =
          IF db_ok
          THEN [@ EXCEPT !.pc = "report",
                         !.memory_count = Cardinality(memory_entries)]
          ELSE [@ EXCEPT !.pc = "done", !.db_ok = db_ok, !.kind = "return",
                         !.result = <<HealthReport(FALSE, 0, 0, <<>>, <<>>)>>]]
    /\ UNCHANGED <<gwVars, agents, interactions, interaction_cache, clock,
                   entVars, log, last>>

\* after the connection is closed the report is built: the caches are read
\* here
health_report(t) ==
    /\ tasks[t].op = "health_check" /\ tasks[t].pc = "report"
    /\ tasks' = [tasks EXCEPT ![t] =
          [@ EXCEPT !.pc = "done", !.kind = "return",
                    !.result = <<HealthReport(TRUE,
                                    tasks[t].interaction_count,
                                    tasks[t].memory_count, interaction_cache,
                                    memory_cache)>>]]
    /\ UNCHANGED <<gwVars, agents, interactions, interaction_cache, clock,
                   entVars, log, last>>

\* initialize(), to its first await, the connect of _create_tables.  A new
\* MemoryManager (fresh) on the same database starts with both caches
\* empty, and the calls of the manager it replaces have ended; the
\* manager in use keeps its caches.
memory_initialize(t, fresh) ==
    /\ tasks[t].pc \in {"idle", "done"}
    /\ fresh => \A u \in Tasks : tasks[u].pc \in {"idle", "done"}
    /\ interaction_cache' = IF fresh THEN <<>> ELSE interaction_cache
    /\ memory_cache' = IF fresh THEN <<>> ELSE memory_cache
    /\ tasks' = [tasks EXCEPT ![t] =
                    [IdleTask EXCEPT !.op = "initialize",
                                     !.pc = "select_interactions"]]
    /\ UNCHANGED <<gwVars, agents, interactions, clock, memory_entries,
                   log, last>>

\* _create_tables (CREATE TABLE IF NOT EXISTS keeps the tables) and the
\* first SELECT of _load_recent_to_cache, or its second SELECT: the rows
\* one of them answers are kept by the cursor; with none the call goes on
\* to the entries or ends.  Nothing catches what the database raises: the
\* call ends with it and the caches stay as they are
initialize_select(t, db_ok) ==
    /\ tasks[t].op = "initialize"
    /\ tasks[t].pc \in {"select_interactions", "select_entries"}
    /\ IF ~db_ok
       THEN tasks' = [tasks EXCEPT ![t] =
                [@ EXCEPT !.pc = "done", !.db_ok = db_ok, !.kind = "raise",
                          !.value = "OperationalError"]]
       ELSE \E rows \in IF tasks[t].pc = "select_interactions"
                        THEN LoadRecentToCache(interactions)
                        ELSE { EntriesOf(r) :
                                 r \in SqlTopEntries(
                                          {x \in memory_entries :
                                              LoadsIntoMemoryCache(x)},
                                          MemoryCacheLoadLimit) } :
              tasks' = [tasks EXCEPT ![t] =
                 IF rows # <<>>
                 THEN [@ EXCEPT !.cached = rows,
                          !.pc = IF @ = "select_interactions"
                                 THEN "load_interactions" ELSE "load_entries"]
                 ELSE IF tasks[t].pc = "select_interactions"
                 THEN [@ EXCEPT !.pc = "select_entries"]
                 ELSE [@ EXCEPT !.pc = "done", !.kind = "return"]]
    /\ UNCHANGED <<gwVars, agents, interactions, interaction_cache, clock,
                   entVars, log, last>>

\* one row of the cursor: self._interaction_cache[interaction.id] =
\* interaction, or self._memory_cache[memory_entry.id] = memory_entry; a
\* key the cache holds keeps its place.  When the fetch of the row raises,
\* the call ends with the rows loaded so far in the cache
initialize_load(t, db_ok) ==
    /\ tasks[t].op = "initialize"
    /\ tasks[t].pc \in {"load_interactions", "load_entries"}
    /\ interaction_cache' = IF db_ok /\ tasks[t].pc = "load_interactions"
                            THEN Inserted(interaction_cache,
                                          Head(tasks[t].cached))
                            ELSE interaction_cache
    /\ memory_cache' = IF db_ok /\ tasks[t].pc = "load_entries"
                       THEN Inserted(memory_cache, Head(tasks[t].cached))
                       ELSE memory_cache
    /\ tasks' = [tasks EXCEPT ![t] =
          IF ~db_ok
          THEN [@ EXCEPT !.cached = <<>>, !.pc = "done", !.db_ok = db_ok,
                         !.kind = "raise", !.value = "OperationalError"]
          ELSE IF Len(tasks[t].cached) > 1
          THEN [@ EXCEPT !.cached = Tail(@)]
          ELSE IF tasks[t].pc = "load_interactions"
          THEN [@ EXCEPT !.cached = <<>>, !.pc = "select_entries"]
          ELSE [@ EXCEPT !.cached = <<>>, !.pc = "done", !.kind = "return"]]
    /\ UNCHANGED <<gwVars, agents, interactions, clock, memory_entries,
                   log, last>>

\* the texts of the model
Hello == <<"h", "e", "l", "l", "o">>

CapitalHello == <<"H", "e", "l", "l", "o">>

HelloWorld == Hello \o <<" ", "w", "o", "r", "l", "d">>

Greeting == <<"g", "r", "e", "e", "t", "i", "n", "g">>

\* datetime.now() when the MemoryManager of SpecEntries is created
EntriesClockStart == 5 * TicksPerSecond

MemoryData(id, timestamp, category, content, tags, importance, expires_at) ==
    [id |-> id, timestamp |-> timestamp, category |-> category,
     content |-> content, tags |-> tags, importance |-> importance,
     expires_at |-> expires_at]

\* the dicts callers hand to store_memory: the entry of the basic test; one
\* with neither importance nor expiry; one of importance 1.5 that expired
\* long ago; one that expires in the second the manager is created in; one
\* whose timestamp has tzinfo
MemoryRequests ==
    { MemoryData(Absent, NoTimestamp, "demo", HelloWorld, <<Greeting>>, <<9>>,
                 NoTimestamp),
      MemoryData("lo", NoTimestamp, Absent, Hello, <<>>, <<>>, NoTimestamp),
      MemoryData("exp", NoTimestamp, Absent, CapitalHello, <<>>, <<15>>,
                 Timestamp("datetime", TicksPerSecond)),
      MemoryData("soon", NoTimestamp, Absent, Hello, <<>>, <<8>>,
                 Timestamp("datetime", EntriesClockStart)),
      MemoryData("aw", Timestamp("aware", EntriesClockStart), Absent, Hello,
                 <<>>, <<>>, NoTimestamp) }

\* the calls of search_memory: (query, category, limit)
SearchRequests ==
    { <<Hello, None, n>> : n \in 1..MaxLimit } \cup { <<Hello, "demo", 1>> }

\* in SpecEntries one task stores, cleans up and initializes, the other
\* searches and checks the health
Writers == Tasks \ Readers

\* a MemoryManager after initialize() on a new database
InitEntries ==
    /\ initialized = FALSE
    /\ running = FALSE
    /\ stop_called = FALSE
    /\ routing_table = EmptyTable
    /\ event_handlers = [t \in BuiltinTopics |-> <<>>]
    /\ channel_manager = None
    /\ agent_manager = None
    /\ memory_manager = None
    /\ agents = InitialAgents
    /\ interactions = {}
    /\ interaction_cache = <<>>
    /\ clock = EntriesClockStart
    /\ tasks = [t \in Tasks |-> IdleTask]
    /\ memory_entries = {}
    /\ memory_cache = <<>>
    /\ log = <<>>
    /\ last = Last("__init__", "Uninitialized", None, "return", None)

\* a dict handed to store_memory whose id is None, the entry important and
\* expired long ago
NullIdMemory ==
    MemoryData(None, NoTimestamp, Absent, Hello, <<>>, <<9>>,
               Timestamp("datetime", TicksPerSecond))

\* the calls on the memory entries of a manager whose database answers or
\* fails each statement; initialize() is run here with the database
\* reachable, its failures are part of NextStores
NextEntries ==
    \/ \E t \in Writers, d \in MemoryRequests \cup {NullIdMemory} :
          /\ clock < EntriesClockStart + MaxEntryCalls
          /\ store_memory_begin(t, d)
    \/ \E t \in Tasks, db_ok \in BOOLEAN : store_memory_write(t, db_ok)
    \/ \E t \in Tasks : store_memory_cache(t)
    \/ \E t \in Readers, r \in SearchRequests :
          search_memory_begin(t, r[1], r[2], r[3])
    \/ \E t \in Readers, db_ok \in BOOLEAN : search_memory_select(t, db_ok)
    \/ \E t \in Writers :
          /\ clock < EntriesClockStart + MaxEntryCalls
          /\ cleanup_begin(t)
    \/ \E t \in Tasks, db_ok \in BOOLEAN : cleanup_select(t, db_ok)
    \/ \E t \in Tasks, db_ok \in BOOLEAN : cleanup_delete(t, db_ok)
    \/ \E t \in Tasks, db_ok \in BOOLEAN : cleanup_commit(t, db_ok)
    \/ \E t \in Readers, db_ok \in BOOLEAN : memory_health_check(t, db_ok)
    \/ \E t \in Tasks, db_ok \in BOOLEAN : health_count_entries(t, db_ok)
    \/ \E t \in Tasks : health_report(t)
    \/ \E t \in Writers, fresh \in BOOLEAN : memory_initialize(t, fresh)
    \/ \E t \in Tasks : initialize_select(t, TRUE)
    \/ \E t \in Tasks : initialize_load(t, TRUE)

SpecEntries == InitEntries /\ [][NextEntries]_vars

\* the dicts of two entries that differ in id and importance only: the
\* content is one capital letter outside ASCII, the tags are 'a' and 'b'
TwinRequests ==
    { MemoryData(d[1], NoTimestamp, "demo", <<"A-umlaut">>,
                 << <<"a">>, <<"b">> >>, <<d[2]>>, NoTimestamp) :
        d \in { <<"t_hi", 9>>, <<"t_lo", DefaultImportance>> } }

\* the calls of search_memory on the twins: the content in lower case and
\* as written, the joined tags, one tag, a character of the tags column
TwinSearches ==
    { <<q, c, MaxLimit>> :
        q \in { <<"a-umlaut">>, <<"A-umlaut">>, <<"a", " ", "b">>, <<"a">>,
                <<"[">> },
        c \in {None, "demo"} }

\* store_memory calls of one task, MaxEntryCalls of them, and the
\* search_memory calls of the other
NextSearch ==
    \/ \E t \in Writers, d \in TwinRequests :
          /\ clock < EntriesClockStart + MaxEntryCalls
          /\ store_memory_begin(t, d)
    \/ \E t \in Tasks, db_ok \in BOOLEAN : store_memory_write(t, db_ok)
    \/ \E t \in Tasks : store_memory_cache(t)
    \/ \E t \in Readers, r \in TwinSearches :
          search_memory_begin(t, r[1], r[2], r[3])
    \/ \E t \in Readers, db_ok \in BOOLEAN : search_memory_select(t, db_ok)

SpecSearch == InitEntries /\ [][NextSearch]_vars

\* a dict handed to store_interaction whose id is None: two rows made of
\* it differ in their rowid only
NullIdInteraction ==
    InteractionData(None, Timestamp("datetime", 50), "c1", "u1")

\* store_interaction, store_memory and cleanup_expired_entries calls of two
\* tasks on a new database, MaxStoreCalls of them
NextStores ==
    \/ \E t \in Tasks, d \in StoreRequests \cup {NullIdInteraction} :
          /\ clock < EntriesClockStart + MaxStoreCalls
          /\ store_begin(t, d)
    \/ \E t \in Tasks, db_ok \in BOOLEAN : store_write(t, db_ok)
    \/ \E t \in Tasks : store_cache(t)
    \/ \E t \in Tasks, d \in MemoryRequests \cup {NullIdMemory} :
          /\ clock < EntriesClockStart + MaxStoreCalls
          /\ store_memory_begin(t, d)
    \/ \E t \in Tasks, db_ok \in BOOLEAN : store_memory_write(t, db_ok)
    \/ \E t \in Tasks : store_memory_cache(t)
    \/ \E t \in Tasks :
          /\ clock < EntriesClockStart + MaxStoreCalls
          /\ cleanup_begin(t)
    \/ \E t \in Tasks, db_ok \in BOOLEAN : cleanup_select(t, db_ok)
    \/ \E t \in Tasks, db_ok \in BOOLEAN : cleanup_delete(t, db_ok)
    \/ \E t \in Tasks, db_ok \in BOOLEAN : cleanup_commit(t, db_ok)
    \/ \E t \in Tasks, fresh \in BOOLEAN : memory_initialize(t, fresh)
    \/ \E t \in Tasks, db_ok \in BOOLEAN : initialize_select(t, db_ok)
    \/ \E t \in Tasks, db_ok \in BOOLEAN : initialize_load(t, db_ok)

SpecStores == InitEntries /\ [][NextStores]_vars

----------------------------------------------------------------------------
(* Collaborators a routed message goes through *)

\* Agent.process_message slices message_data.get('content', ''): a content
\* of None raises TypeError
ProcessMessageRaises(message_data) == message_data.content = None

\* ChannelManager.send_message(channel_id, message_data): the exception it
\* raises, or None, and the result it returns. An unknown channel is
\* answered before the payload is read; for a known one the text is
\* get('text', get('message', '')), so 'message' counts only when the key
\* 'text' is missing, and the channel slices it: None raises TypeError.
\* The recipient is a string in every payload of the model.
SendMessage_RaisesOnUnknown(channel_id, message_data) ==
    LET message_text == GetOr(message_data.text,
                              GetOr(message_data.message, ""))
    IN  IF channel_id \notin Channels \/ message_text = None
        THEN [exc |-> "KeyError", value |-> None]
        ELSE [exc |-> None, value |-> SendSuccess]

SendMessage(channel_id, message_data) ==
    LET message_text == GetOr(message_data.text,
                              GetOr(message_data.message, ""))
    IN  IF channel_id \notin Channels
        THEN [exc |-> None, value |-> SendNotFound]
        ELSE IF message_text = None
        THEN [exc |-> "TypeError", value |-> None]
        ELSE [exc |-> None, value |-> SendSuccess]

----------------------------------------------------------------------------
(* Gateway: events and handlers *)

\* `if not self.running`
NotRunning_Uninitialized == ~initialized
NotRunning == ~running

\* the result for a route key the table does not hold
NoRouteOutcome_Raises == [kind |-> "raise", value |-> "KeyError"]
NoRouteOutcome == [kind |-> "return", value |-> None]

\* the topics route_message emits before and after the handler
ReceivedEvent_Processed == "message_processed"
ReceivedEvent == "message_received"

ProcessedEvent == "message_processed"

\* _emit_event: the loop goes on to the next observer after one has run,
\* whether it raised (caught and logged) or not
EmitContinues_Break(raised) == ~raised
EmitContinues(raised) == TRUE

\* an observer that awaits before it returns: the call that reaches it is
\* suspended inside it
ObserverAwaits(h) == h = AwaitingObserver

\* what running observer h of `topic` does to the observer lists
ObserverEffect(h, topic, handlers) ==
    IF h = OnceObserver
    THEN [handlers EXCEPT ![topic] = RemoveFirst(@, h)]
    ELSE handlers

\* `for handler in self.event_handlers[event_type]`: the iteration is over
\* the list itself, by position, so it sees what the observers and other
\* callers do to it.  The calls made from position idx on, up to the end of
\* the list or to the first observer that awaits (at is its position, 0
\* when the loop has ended), and the lists left
RECURSIVE EmitFrom(_, _, _)
EmitFrom(handlers, topic, idx) ==
    IF idx > Len(handlers[topic])
    THEN [trace |-> <<>>, handlers |-> handlers, at |-> 0]
    ELSE LET h == handlers[topic][idx]
             raised == ObserverRaises(h)
             called == <<Entry("observer", topic, h,
                               IF raised THEN "raised" ELSE "ok")>>
             after == ObserverEffect(h, topic, handlers)
         IN  IF ObserverAwaits(h)
             THEN [trace |-> called, handlers |-> handlers, at |-> idx]
             ELSE IF EmitContinues(raised)
             THEN [EmitFrom(after, topic, idx + 1)
                      EXCEPT !.trace = called \o @]
             ELSE [trace |-> called, handlers |-> after, at |-> 0]

\* _emit_event(event_type, event_data) from its start: the calls it makes,
\* in order, the observer lists it leaves and the position of the observer
\* it is suspended in, or 0
EmitEvent(handlers, topic) ==
    [(IF topic \in DOMAIN handlers
      THEN EmitFrom(handlers, topic, 1)
      ELSE [trace |-> <<>>, handlers |-> handlers, at |-> 0])
        EXCEPT !.trace = <<Entry("emit", topic, None, None)>> \o @]

\* the bare `raise` of a handler's except clause: the exception as caught
Reraised(e) == e

\* what a call did in one step, after making the calls of `trace` and
\* leaving the observer lists as given: it returned `value`, raised it, or
\* awaits (kind "await") at pc what it called last, holding `value`; a call
\* that awaits an observer is at position idx of the list of topic
Outcome(kind, value, trace, handlers) ==
    [kind |-> kind, value |-> value, trace |-> trace, handlers |-> handlers,
     pc |-> "done", topic |-> None, idx |-> 0]

Returns(v, trace, handlers) == Outcome("return", v, trace, handlers)

\* the call is suspended in what it awaits at pc
Awaits(pc, held, trace, handlers) ==
    [Outcome("await", held, trace, handlers) EXCEPT !.pc = pc]

\* the call is suspended in the observer at which the emission em stopped
AwaitsObserver(em, topic, held) ==
    [Outcome("await", held, em.trace, em.handlers)
        EXCEPT !.pc = "emit", !.topic = topic, !.idx = em.at]

\* the calls of `trace`, then what out says
After(trace, out) == [out EXCEPT !.trace = trace \o @]

\* the except clause of a handler from the delivery em of error_occurred
\* on: `raise`
ErrorFrom(e, em) ==
    IF em.at # 0 THEN AwaitsObserver(em, "error_occurred", e)
    ELSE Outcome("raise", Reraised(e), em.trace, em.handlers)

\* `except Exception as e` of a handler that has made the calls of trace:
\* error_occurred is emitted, then e is re-raised
Caught(e, trace, handlers) ==
    After(trace \o <<Entry("exception_caught", None, None, e)>>,
          ErrorFrom(e, EmitEvent(handlers, "error_occurred")))

\* AgentManager.get_default_agent_id()
DefaultAgentId == IF agent_manager = AgentManagerNew THEN None
                  ELSE default_agent_id

\* AgentManager.get_agent(agent_id) is not None
AgentExists_Always(agent_id) == TRUE
AgentExists(agent_id) ==
    agent_manager # AgentManagerNew /\ agent_id \in agents

\* `if not channel_id`
NoChannelId_Never(channel_id) == FALSE
NoChannelId(channel_id) == ~Truthy(channel_id)

\* _route_channel_to_agent(message_data), to its end or to the await
\* inside store_interaction, which the call reaches with a memory manager
\* after the agent has answered
RouteChannelToAgent(message_data, handlers) ==
    LET agent_id == DefaultAgentId
        processed(v) == <<Entry("process_message", None, agent_id, v)>>
    IN  IF agent_manager = None
        THEN Caught("AttributeError", <<>>, handlers)
        ELSE IF ~Truthy(agent_id) \/ ~AgentExists(agent_id)
        THEN Returns(None, <<>>, handlers)
        ELSE IF ProcessMessageRaises(message_data)
        THEN Caught("TypeError", processed("raised"), handlers)
        ELSE IF memory_manager = None
        THEN Returns(AgentResponse, processed(AgentResponse), handlers)
        ELSE Awaits("store", AgentResponse, processed(AgentResponse),
                    handlers)

\* _route_channel_to_agent resumed when store_interaction has ended, the
\* database reachable or not: the exception is caught, or the response is
\* returned (store_interaction run to its end leaves `stored`)
RouteChannelToAgentStored(stored, handlers) ==
    IF stored.exc # None
    THEN Caught(stored.exc,
                <<Entry("store_interaction", None, MemoryManagerRef,
                        stored.exc)>>, handlers)
    ELSE Returns(AgentResponse,
                 <<Entry("store_interaction", None, MemoryManagerRef,
                         "stored")>>, handlers)

\* _route_agent_to_channel from the delivery em of agent_response on:
\* `return result`
AgentResponseFrom(result, em) ==
    IF em.at # 0 THEN AwaitsObserver(em, "agent_response", result)
    ELSE Returns(result, em.trace, em.handlers)

\* _route_agent_to_channel(message_data); the call a channel of
\* ChannelManager.channels makes to its service, once it has read the text,
\* completes or never does
RouteAgentToChannel(message_data, handlers, completes) ==
    LET channel_id == Get(message_data.channel_id)
        sent == SendMessage(channel_id, message_data)
        send(v) == <<Entry("send_message", None, channel_id, v)>>
    IN  IF NoChannelId(channel_id) \/ channel_manager = None
        THEN Returns(None, <<>>, handlers)
        ELSE IF sent.exc # None
        THEN Caught(sent.exc, send("raised"), handlers)
        ELSE IF channel_id \in Channels /\ ~completes
        THEN Awaits("blocked", None, <<>>, handlers)
        ELSE After(send(sent.value),
                   AgentResponseFrom(sent.value,
                                     EmitEvent(handlers, "agent_response")))

\* 'healthy' if self.initialized else 'stopped'
GatewayStatus_Initialized == IF initialized THEN "healthy" ELSE "stopped"

\* 'gateway': 'healthy' if self.running else 'stopped'; the health_status
\* dict is named by this entry
GatewayStatus == IF running THEN "healthy" ELSE "stopped"

\* the components _perform_health_check asks, in its order: those whose
\* reference is set
HealthComponents ==
    (IF channel_manager # None THEN <<"channel_manager">> ELSE <<>>)
    \o (IF agent_manager # None THEN <<"agent_manager">> ELSE <<>>)
    \o (IF memory_manager # None THEN <<"memory_manager">> ELSE <<>>)

\* _perform_health_check(), to its end or to the await inside
\* MemoryManager.health_check(), the last component asked: the trace holds
\* one entry for each component asked
PerformHealthCheck(handlers) ==
    LET asked == [k \in 1..Len(HealthComponents) |->
                     Entry("component_health", None, HealthComponents[k],
                           None)]
    IN  IF memory_manager # None
        THEN Awaits("health", GatewayStatus, asked, handlers)
        ELSE Returns(GatewayStatus, asked, handlers)

\* the dict _handle_system_notification returns for a notification type it
\* only acknowledges
NotificationProcessed == "notification_processed"

\* _handle_system_notification(message_data): health_check() for the
\* notification type health_check, a dict of status 'processed' for every
\* other
HandleSystemNotification(message_data, handlers) ==
    IF Get(message_data.notification_type) = "health_check"
    THEN PerformHealthCheck(handlers)
    ELSE Returns(NotificationProcessed, <<>>, handlers)

\* _route_internal_message(message_data): the dispatch on the payload's type
RouteInternalMessage(message_data, handlers) ==
    IF Get(message_data.type) = "system_notification"
    THEN HandleSystemNotification(message_data, handlers)
    ELSE IF Get(message_data.type) = "component_health_check"
    THEN PerformHealthCheck(handlers)
    ELSE Returns(None, <<>>, handlers)

\* route_message from the delivery em of message_processed on: `return
\* result`
ProcessedFrom(result, em) ==
    IF em.at # 0 THEN AwaitsObserver(em, ProcessedEvent, result)
    ELSE Returns(result, em.trace, em.handlers)

\* route_message from `result = await handler(message_data)` on, the
\* handler having made the calls of out: it is suspended still, it raised
\* (route_message catches nothing) or it returned, and message_processed
\* is emitted
HandlerEnded(key, out) ==
    IF out.kind = "await" THEN out
    ELSE IF out.kind = "raise"
    THEN Outcome("raise", out.value,
                 out.trace \o <<Entry("handler_raised", key,
                                      BuiltinRoutes[key], out.value)>>,
                 out.handlers)
    ELSE After(out.trace \o <<Entry("handler_returned", key,
                                    BuiltinRoutes[key], out.value)>>,
               ProcessedFrom(out.value,
                             EmitEvent(out.handlers, ProcessedEvent)))

\* result = await handler(message_data), and what follows it
InvokeHandler(key, handler, message_data, handlers, completes) ==
    After(<<Entry("handler", key, handler, None)>>,
          HandlerEnded(key,
             CASE handler = "_route_channel_to_agent" ->
                     RouteChannelToAgent(message_data, handlers)
               [] handler = "_route_agent_to_channel" ->
                     RouteAgentToChannel(message_data, handlers, completes)
               [] OTHER -> RouteInternalMessage(message_data, handlers)))

\* route_message from the delivery em of message_received on: handler =
\* self.routing_table[route_key], which raises KeyError for a key the table
\* has lost since the call began
ReceivedFrom(key, message_data, em, completes) ==
    IF em.at # 0 THEN AwaitsObserver(em, ReceivedEvent, None)
    ELSE IF key \notin DOMAIN routing_table
    THEN Outcome("raise", "KeyError", em.trace, em.handlers)
    ELSE After(em.trace,
               InvokeHandler(key, routing_table[key], message_data,
                             em.handlers, completes))

----------------------------------------------------------------------------
(* Gateway: the operations *)

ListeningCall(name) ==
    IF channel_manager # None
    THEN <<Entry(name, None, ChannelManagerRef, None)>>
    ELSE <<>>

\* Gateway.initialize(channel_manager, agent_manager, memory_manager)
initialize(cm, am, mm) ==
    /\ \A t \in BuiltinTopics : Len(event_handlers[t]) < MaxHandlers
    /\ channel_manager' = cm
    /\ agent_manager' = am
    /\ memory_manager' = mm
    /\ routing_table' = SetupMessageRouting(routing_table)
    /\ event_handlers' = SetupEventHandlers(event_handlers)
    /\ initialized' = TRUE
    /\ log' = <<>>
    /\ last' = Last("initialize", LifecycleState, None, "return", None)
    /\ UNCHANGED <<running, stop_called, agents, memVars>>

\* Gateway.start()
start ==
    /\ IF ~initialized
       THEN /\ last' = Last("start", LifecycleState, None, "raise",
                            "RuntimeError: Gateway not initialized")
            /\ log' = <<>>
            /\ UNCHANGED running
       ELSE /\ running' = TRUE
            /\ log' = ListeningCall("start_listening")
            /\ last' = Last("start", LifecycleState, None, "return", None)
    /\ UNCHANGED <<initialized, stop_called, routing_table, event_handlers,
                   channel_manager, agent_manager, memory_manager,
                   agents, memVars>>

\* Gateway.stop()
stop ==
    /\ running' = FALSE
    /\ stop_called' = initialized
    /\ log' = ListeningCall("stop_listening")
    /\ last' = Last("stop", LifecycleState, None, "return", None)
    /\ UNCHANGED <<initialized, routing_table, event_handlers,
                   channel_manager, agent_manager, memory_manager,
                   agents, memVars>>

\* what a step of the call op of caller t leaves: the trace and the
\* observer lists, the outcome, and the call suspended where it awaits or
\* ended (now holds the datetime.now() of the dict handed to
\* store_interaction)
CallStep(t, op, step, pre, key, message_data, outcome) ==
    \E out \in {outcome} :
        /\ log' = out.trace
        /\ event_handlers' = out.handlers
        /\ last' = [Last(step, pre, key, out.kind,
                         IF out.kind = "await" THEN None ELSE out.value)
                       EXCEPT !.message_data = message_data]
        /\ tasks' = [tasks EXCEPT ![t] =
              IF out.kind = "await"
              THEN [IdleTask EXCEPT !.op = op, !.pc = out.pc, !.key = key,
                       !.message_data = message_data, !.value = out.value,
                       !.topic = out.topic, !.idx = out.idx,
                       !.now = IF out.pc = "store" THEN clock + 1 ELSE 0]
              ELSE IdleTask]

\* Gateway.health_check() of caller t: _perform_health_check(), to its end
\* or to the await inside MemoryManager.health_check()
health_check(t) ==
    /\ tasks[t].pc \in {"idle", "done"}
    /\ CallStep(t, "Gateway.health_check", "health_check", LifecycleState,
                None, NoPayload, PerformHealthCheck(event_handlers))
    /\ UNCHANGED <<initialized, running, stop_called, routing_table,
                   channel_manager, agent_manager, memory_manager, agents,
                   interactions, interaction_cache, clock, entVars>>

\* Gateway._route_internal_message(message_data) called by caller t on
\* the handler itself, to its end or to the await inside
\* MemoryManager.health_check()
route_internal_message(t, message_data) ==
    /\ tasks[t].pc \in {"idle", "done"}
    /\ CallStep(t, "_route_internal_message", "_route_internal_message",
                LifecycleState, None, message_data,
                RouteInternalMessage(message_data, event_handlers))
    /\ UNCHANGED <<initialized, running, stop_called, routing_table,
                   channel_manager, agent_manager, memory_manager, agents,
                   interactions, interaction_cache, clock, entVars>>

\* a call suspended in MemoryManager.health_check(), which never raises,
\* resumed with its report: health_check() and _route_internal_message()
\* return the status they read; a route goes on from the return of its
\* handler
health_resume(t) ==
    /\ tasks[t].pc = "health"
    /\ tasks[t].op \in {"Gateway.health_check", "_route_internal_message",
                        "route_message"}
    /\ LET returned == Returns(tasks[t].value, <<>>, event_handlers)
       IN  IF tasks[t].op = "route_message"
           THEN CallStep(t, tasks[t].op, "route_health", "Running",
                         tasks[t].key, tasks[t].message_data,
                         HandlerEnded(tasks[t].key, returned))
           ELSE CallStep(t, tasks[t].op,
                         IF tasks[t].op = "Gateway.health_check"
                         THEN "health_resume" ELSE "internal_resume",
                         LifecycleState, None, tasks[t].message_data,
                         returned)
    /\ UNCHANGED <<initialized, running, stop_called, routing_table,
                   channel_manager, agent_manager, memory_manager, agents,
                   interactions, interaction_cache, clock, entVars>>

\* Gateway.shutdown() of caller t, to the await inside stop(): with a
\* channel manager the call is suspended in stop_listening(); with none
\* nothing is awaited and _cleanup_resources() follows at once
shutdown(t) ==
    /\ tasks[t].pc \in {"idle", "done"}
    /\ running' = FALSE
    /\ stop_called' = initialized
    /\ log' = ListeningCall("stop_listening")
    /\ IF channel_manager # None
       THEN /\ tasks' = [tasks EXCEPT ![t] =
                  [IdleTask EXCEPT !.op = "shutdown", !.pc = "cleanup"]]
            /\ last' = Last("shutdown", LifecycleState, None, "await", None)
            /\ UNCHANGED <<routing_table, event_handlers, channel_manager,
                           agent_manager, memory_manager>>
       ELSE /\ tasks' = [tasks EXCEPT ![t] = IdleTask]
            /\ routing_table' = EmptyTable
            /\ event_handlers' = [k \in DOMAIN event_handlers |-> <<>>]
            /\ channel_manager' = None
            /\ agent_manager' = None
            /\ memory_manager' = None
            /\ last' = Last("shutdown", LifecycleState, None, "return", None)
    /\ UNCHANGED <<initialized, agents, interactions, interaction_cache,
                   clock, entVars>>

\* shutdown() resumed when stop() has returned: _cleanup_resources()
cleanup_resources(t) ==
    /\ tasks[t].op = "shutdown" /\ tasks[t].pc = "cleanup"
    /\ tasks' = [tasks EXCEPT ![t] = IdleTask]
    /\ routing_table' = EmptyTable
    /\ event_handlers' = [k \in DOMAIN event_handlers |-> <<>>]
    /\ channel_manager' = None
    /\ agent_manager' = None
    /\ memory_manager' = None
    /\ log' = <<>>
    /\ last' = Last("_cleanup_resources", LifecycleState, None, "return",
                    None)
    /\ UNCHANGED <<initialized, running, stop_called, agents, interactions,
                   interaction_cache, clock, entVars>>

\* register_event_handler with list.insert(0, handler) for list.append
register_event_handler_Prepends(event_type, handler) ==
    /\ event_handlers' =
          [t \in DOMAIN event_handlers \cup {event_type} |->
              IF t = event_type
              THEN <<handler>> \o (IF t \in DOMAIN event_handlers
                                   THEN event_handlers[t] ELSE <<>>)
              ELSE event_handlers[t]]
    /\ log' = <<>>
    /\ last' = Last("register_event_handler", LifecycleState, event_type,
                    "return", None)
    /\ UNCHANGED <<initialized, running, stop_called, routing_table,
                   channel_manager, agent_manager, memory_manager,
                   agents, memVars>>

\* Gateway.register_event_handler(event_type, handler)
register_event_handler(event_type, handler) ==
    /\ event_handlers' =
          [t \in DOMAIN event_handlers \cup {event_type} |->
              IF t = event_type
              THEN Append(IF t \in DOMAIN event_handlers
                          THEN event_handlers[t] ELSE <<>>, handler)
              ELSE event_handlers[t]]
    /\ log' = <<>>
    /\ last' = Last("register_event_handler", LifecycleState, event_type,
                    "return", None)
    /\ UNCHANGED <<initialized, running, stop_called, routing_table,
                   channel_manager, agent_manager, memory_manager,
                   agents, memVars>>

\* Gateway.remove_event_handler(event_type, handler)
remove_event_handler(event_type, handler) ==
    /\ event_handlers' =
          IF event_type \in DOMAIN event_handlers
          THEN [event_handlers EXCEPT
                   ![event_type] = RemoveFirst(@, handler)]
          ELSE event_handlers
    /\ log' = IF event_type \in DOMAIN event_handlers
              THEN <<Entry("list.remove", event_type, handler,
                           IF CountIn(event_handlers[event_type], handler) > 0
                           THEN "removed" ELSE "ValueError")>>
              ELSE <<>>
    /\ last' = Last("remove_event_handler", LifecycleState, event_type,
                    "return", None)
    /\ UNCHANGED <<initialized, running, stop_called, routing_table,
                   channel_manager, agent_manager, memory_manager,
                   agents, memVars>>

\* Gateway.route_message(source, destination, message_data) of caller t,
\* to its end or to its first await
route_message(t, source, destination, message_data, completes) ==
    LET key == RouteKey(source, destination)
    IN  /\ tasks[t].pc \in {"idle", "done"}
        /\ CallStep(t, "route_message", "route_message", LifecycleState, key,
              message_data,
              IF NotRunning
              THEN Outcome("raise", "RuntimeError: Gateway is not running",
                           <<>>, event_handlers)
              ELSE IF key \notin DOMAIN routing_table
              THEN Outcome(NoRouteOutcome.kind, NoRouteOutcome.value, <<>>,
                           event_handlers)
              ELSE ReceivedFrom(key, message_data,
                                EmitEvent(event_handlers, ReceivedEvent),
                                completes))
        /\ UNCHANGED <<initialized, running, stop_called, routing_table,
                       channel_manager, agent_manager, memory_manager,
                       agents, interactions, interaction_cache, clock,
                       entVars>>

\* a route_message call suspended in an observer, resumed when the observer
\* returns: the rest of the delivery, on the list as it is now, and what
\* follows the emission, to the end of the call or to its next await
route_resume(t, completes) ==
    /\ tasks[t].op = "route_message" /\ tasks[t].pc = "emit"
    /\ LET key == tasks[t].key
           topic == tasks[t].topic
           em == EmitFrom(event_handlers, topic, tasks[t].idx + 1)
       IN  CallStep(t, "route_message", "route_resume", "Running", key,
              tasks[t].message_data,
              IF topic = "agent_response"
              THEN HandlerEnded(key, AgentResponseFrom(tasks[t].value, em))
              ELSE IF topic = "error_occurred"
              THEN HandlerEnded(key, ErrorFrom(tasks[t].value, em))
              ELSE IF topic = ReceivedEvent
              THEN ReceivedFrom(key, tasks[t].message_data, em, completes)
              ELSE ProcessedFrom(tasks[t].value, em))
    /\ UNCHANGED <<initialized, running, stop_called, routing_table,
                   channel_manager, agent_manager, memory_manager, agents,
                   interactions, interaction_cache, clock, entVars>>

\* a route_message call resumed when store_interaction has ended, the
\* database reachable or not: the rest of _route_channel_to_agent and of
\* route_message
route_stored(t, db_ok) ==
    /\ tasks[t].op = "route_message" /\ tasks[t].pc = "store"
    /\ LET stored == StoreInteraction(
                         GatewayInteractionData(tasks[t].message_data,
                                                tasks[t].now),
                         tasks[t].now, db_ok, interactions, interaction_cache)
       IN  /\ interactions' = stored.table
           /\ interaction_cache' = stored.cache
           /\ clock' = IF stored.exc = None /\ clock < tasks[t].now
                       THEN tasks[t].now ELSE clock
           /\ CallStep(t, "route_message", "route_stored", "Running",
                       tasks[t].key, tasks[t].message_data,
                       HandlerEnded(tasks[t].key,
                          RouteChannelToAgentStored(stored, event_handlers)))
    /\ UNCHANGED <<initialized, running, stop_called, routing_table,
                   channel_manager, agent_manager, memory_manager, agents,
                   entVars>>

----------------------------------------------------------------------------
(* Collaborators the callers of the gateway also reach directly *)

\* AgentManager.remove_agent(agent_id)
remove_agent(agent_id) ==
    /\ agents' = agents \ {agent_id}
    /\ log' = <<>>
    /\ last' = Last("remove_agent", LifecycleState, agent_id, "return",
                    IF agent_id \in agents THEN "True" ELSE "False")
    /\ UNCHANGED <<gwVars, memVars>>

\* an agent id that initialize() does not create
ThirdAgent == "third-agent"

\* AgentManager.create_agent(agent_config, tool_registry) with the id
\* agent_id in the config: self.agents[agent_id] = agent
create_agent(agent_id) ==
    /\ agents' = agents \cup {agent_id}
    /\ log' = <<>>
    /\ last' = Last("create_agent", LifecycleState, agent_id, "return",
                    agent_id)
    /\ UNCHANGED <<gwVars, memVars>>

\* AgentManager.initialize(tool_registry) on the manager in use: the
\* default and the secondary agent are created anew
agents_initialize ==
    /\ agents' = agents \cup InitialAgents
    /\ log' = <<>>
    /\ last' = Last("AgentManager.initialize", LifecycleState, None,
                    "return", None)
    /\ UNCHANGED <<gwVars, memVars>>

\* AgentManager.shutdown(): self.agents.clear(); default_agent_id stays
agents_shutdown ==
    /\ agents' = {}
    /\ log' = <<>>
    /\ last' = Last("AgentManager.shutdown", LifecycleState, None,
                    "return", None)
    /\ UNCHANGED <<gwVars, memVars>>

\* Gateway._emit_event(event_type, event_data), called on its own by
\* caller t, to its end or to the await inside an observer
emit_event(t, event_type) ==
    LET em == EmitEvent(event_handlers, event_type)
    IN  /\ tasks[t].pc \in {"idle", "done"}
        /\ CallStep(t, "_emit_event", "_emit_event", LifecycleState,
                    event_type, NoPayload,
                    IF em.at # 0 THEN AwaitsObserver(em, event_type, None)
                    ELSE Returns(None, em.trace, em.handlers))
        /\ UNCHANGED <<initialized, running, stop_called, routing_table,
                       channel_manager, agent_manager, memory_manager,
                       agents, interactions, interaction_cache, clock,
                       entVars>>

\* the _emit_event call resumed when the observer it awaits returns
emit_resume(t) ==
    /\ tasks[t].op = "_emit_event" /\ tasks[t].pc = "emit"
    /\ LET em == EmitFrom(event_handlers, tasks[t].topic, tasks[t].idx + 1)
       IN  CallStep(t, "_emit_event", "emit_resume", LifecycleState,
                    tasks[t].topic, NoPayload,
                    IF em.at # 0
                    THEN AwaitsObserver(em, tasks[t].topic, None)
                    ELSE Returns(None, em.trace, em.handlers))
    /\ UNCHANGED <<initialized, running, stop_called, routing_table,
                   channel_manager, agent_manager, memory_manager, agents,
                   interactions, interaction_cache, clock, entVars>>

----------------------------------------------------------------------------

\* the component managers handed to initialize(): all three, or one missing
ManagerSets ==
    { <<ChannelManagerRef, AgentManagerRef, MemoryManagerRef>>,
      <<ChannelManagerRef, AgentManagerRef, None>>,
      <<ChannelManagerRef, None, MemoryManagerRef>>,
      <<ChannelManagerRef, AgentManagerNew, MemoryManagerRef>>,
      <<None, AgentManagerRef, MemoryManagerRef>> }

\* the messages callers route
RouteRequests ==
    { <<"channel", "agent", ChatMessage>>,
      <<"channel", "agent", ChatContentNone>>,
      <<"agent", "channel", Reply>>,
      <<"agent", "channel", ReplyUnknownChannel>>,
      <<"agent", "channel", ReplyTextNone>>,
      <<"agent", "channel", ReplyNoChannel>>,
      <<"agent", "channel", ReplyMessage>>,
      <<"agent", "channel", ReplyMessageNone>>,
      <<"agent", "channel", ReplyMessageNoneUnknownChannel>>,
      <<"agent", "channel", ReplyTextOverMessage>>,
      <<"system", "internal", SystemNotification>>,
      <<"internal", "message", SystemNotification>> }

Next ==
    \/ \E m \in ManagerSets : initialize(m[1], m[2], m[3])
    \/ start
    \/ stop
    \/ \E t \in Tasks : shutdown(t)
    \/ \E t \in Tasks : cleanup_resources(t)
    \/ \E t \in {"message_received", "message_processed"}, h \in Observers :
          /\ RegisteredObservers < MaxObservers
          /\ Len(event_handlers[t]) < MaxHandlers
          /\ register_event_handler(t, h)
    \/ \E t \in {"message_received", "message_processed"}, h \in Observers :
          remove_event_handler(t, h)
    \/ \E a \in {default_agent_id} : remove_agent(a)
    \/ \E a \in {default_agent_id} : create_agent(a)
    \/ \E t \in Tasks, r \in RouteRequests :
          route_message(t, r[1], r[2], r[3], TRUE)
    \/ \E t \in Tasks, db_ok \in BOOLEAN : route_stored(t, db_ok)

Spec == Init /\ [][Next]_vars

\* the internal messages handed to _route_internal_message: the two that
\* ask for a health check, a notification of no type and a message of no
\* type
InternalMessages ==
    {ComponentHealthCheck, HealthNotification, SystemNotification, NoPayload}

\* the lifecycle calls, registrations and health checks of a gateway; no
\* event is emitted here, so one observer on two topics stands for the
\* registrations
NextHealth ==
    \/ \E m \in ManagerSets : initialize(m[1], m[2], m[3])
    \/ start
    \/ stop
    \/ \E t \in Tasks : shutdown(t)
    \/ \E t \in Tasks : cleanup_resources(t)
    \/ \E t \in {ReceivedEvent, "error_occurred"} :
          /\ RegisteredObservers < MaxObservers
          /\ Len(event_handlers[t]) < MaxHandlers
          /\ register_event_handler(t, "obs_ok")
    \/ \E t \in Tasks : health_check(t)
    \/ \E t \in Tasks, m \in InternalMessages :
          route_internal_message(t, m)
    \/ \E t \in Tasks : health_resume(t)

SpecHealth == Init /\ [][NextHealth]_vars

\* the routes of a gateway on whose four topics callers register observers
NextObservers ==
    \/ \E m \in ManagerSets : initialize(m[1], m[2], m[3])
    \/ start
    \/ \E t \in BuiltinTopics, h \in Observers :
          /\ RegisteredObservers < MaxObservers
          /\ Len(event_handlers[t]) < MaxHandlers
          /\ register_event_handler(t, h)
    \/ \E t \in Tasks, r \in RouteRequests :
          route_message(t, r[1], r[2], r[3], TRUE)
    \/ \E t \in Tasks, db_ok \in BOOLEAN : route_stored(t, db_ok)

SpecObservers == Init /\ [][NextObservers]_vars

----------------------------------------------------------------------------
(* route_message in the steps its suspension points cut it into: a caller
   registered on message_received an observer that awaits, followed by one
   that raises, so a call is suspended during the delivery of that event;
   its handler may await an external channel call that never completes *)

\* the messages routed in SpecRouting
RoutingRequests ==
    { <<"channel", "agent", ChatMessage>>,
      <<"agent", "channel", Reply>>,
      <<"agent", "channel", ReplyUnknownChannel>>,
      <<"internal", "message", SystemNotification>> }

\* entries the observer list of message_received may hold in SpecRouting
MaxRoutingHandlers == 4

\* a gateway after initialize() and start(), all three managers attached,
\* register_event_handler('message_received', obs_await) and
\* register_event_handler('message_received', obs_raise)
InitRouting ==
    /\ initialized = TRUE
    /\ running = TRUE
    /\ stop_called = FALSE
    /\ routing_table = SetupMessageRouting(EmptyTable)
    /\ event_handlers =
          [SetupEventHandlers([t \in BuiltinTopics |-> <<>>])
              EXCEPT ![ReceivedEvent] =
                        Append(Append(@, AwaitingObserver), "obs_raise")]
    /\ channel_manager = ChannelManagerRef
    /\ agent_manager = AgentManagerRef
    /\ memory_manager = MemoryManagerRef
    /\ agents = InitialAgents
    /\ interactions = {}
    /\ interaction_cache = <<>>
    /\ clock = 0
    /\ tasks = [t \in Tasks |-> IdleTask]
    /\ memory_entries = {}
    /\ memory_cache = <<>>
    /\ log = <<>>
    /\ last = Last("start", "Initialized", None, "return", None)

NextRouting ==
    \/ \E t \in Tasks, r \in RoutingRequests, completes \in BOOLEAN :
          route_message(t, r[1], r[2], r[3], completes)
    \/ \E t \in Tasks, completes \in BOOLEAN : route_resume(t, completes)
    \/ \E t \in Tasks, db_ok \in BOOLEAN : route_stored(t, db_ok)
    \/ \E t \in Tasks : emit_event(t, ReceivedEvent)
    \/ \E t \in Tasks : emit_resume(t)
    \/ /\ Len(event_handlers[ReceivedEvent]) < MaxRoutingHandlers
       /\ register_event_handler(ReceivedEvent, OnceObserver)
    \/ remove_event_handler(ReceivedEvent, AwaitingObserver)
    \/ start
    \/ stop
    \/ \E t \in Tasks : shutdown(t)
    \/ \E t \in Tasks : cleanup_resources(t)
    \/ \E a \in {default_agent_id, ThirdAgent} : create_agent(a)
    \/ \E a \in {default_agent_id} : remove_agent(a)
    \/ agents_initialize
    \/ agents_shutdown

SpecRouting == InitRouting /\ [][NextRouting]_vars

\* every suspended call is resumed in the end, and so are the callers of
\* start, stop and shutdown
SpecRoutingFair ==
    /\ SpecRouting
    /\ \A t \in Tasks :
          /\ WF_vars(\E completes \in BOOLEAN : route_resume(t, completes))
          /\ WF_vars(\E db_ok \in BOOLEAN : route_stored(t, db_ok))
          /\ WF_vars(emit_resume(t))
          /\ WF_vars(cleanup_resources(t))

----------------------------------------------------------------------------
(* The observer lists on their own: registration, removal and emission on
   a built-in topic and on a topic created by registration, with an
   observer that unregisters itself *)

EventTopics == {"message_received", CustomTopic}

\* a topic nothing was ever registered on
UnknownTopic == "unknown_event"

EventObservers == Observers \cup {OnceObserver}

NextEvents ==
    \/ /\ \A t \in BuiltinTopics : Len(event_handlers[t]) < MaxEventHandlers
       /\ initialize(ChannelManagerRef, AgentManagerRef, MemoryManagerRef)
    \/ start
    \/ \E t \in EventTopics, h \in EventObservers :
          /\ t \in DOMAIN event_handlers
                => Len(event_handlers[t]) < MaxEventHandlers
          /\ register_event_handler(t, h)
    \/ \E t \in EventTopics \cup {UnknownTopic}, h \in EventObservers :
          remove_event_handler(t, h)
    \/ \E t \in EventTopics \cup {UnknownTopic} : emit_event(1, t)
    \/ route_message(1, "agent", "channel", Reply, TRUE)

SpecEvents == Init /\ [][NextEvents]_vars

----------------------------------------------------------------------------
(* Reading the trace of the last operation *)

Routed == last.op = "route_message"

\* the last step resumed a route_message call that awaited
\* store_interaction or a health report
Resumed == last.op \in {"route_stored", "route_health"}

\* the positions of the trace that hold an entry of kind ev
Positions(ev) == {i \in 1..Len(log) : log[i].ev = ev}

\* the positions where _emit_event was entered for the topic
Emissions(topic) == {i \in Positions("emit") : log[i].topic = topic}

\* the entry at position i + j is the delivery to the j-th observer that
\* the topic emitted at position i has
DeliveredTo(i, j) ==
    /\ i + j <= Len(log)
    /\ log[i + j].ev = "observer"
    /\ log[i + j].topic = log[i].topic
    /\ log[i + j].who = event_handlers[log[i].topic][j]

\* the position after the last delivery of the emission at position i
EndOfEmission(i) == i + Len(event_handlers[log[i].topic])

----------------------------------------------------------------------------
(* Properties of route_message *)

\* C1: route_message called in a lifecycle state other than Running fails
\* with the not-running error, and has called no handler, emitted no event
\* and stored no interaction.
C1_NotRunningFails ==
    (Routed /\ last.pre # "Running") =>
        /\ last.kind = "raise"
        /\ last.value = "RuntimeError: Gateway is not running"
        /\ log = <<>>

\* a route refused on a gateway that is initialized but was never started
C1_Witness ==
    /\ Routed
    /\ last.pre = "Initialized"
    /\ last.key = "channel_to_agent"
    /\ last.key \in DOMAIN routing_table
    /\ last.kind = "raise"

\* C2: on a Running gateway, a route key that has no registered handler
\* makes route_message return None without raising, and nothing is emitted,
\* called or stored.
C2_UnregisteredRouteIsNoOp ==
    (Routed /\ last.pre = "Running" /\ last.key \notin DOMAIN routing_table) =>
        /\ last.kind = "return"
        /\ last.value = None
        /\ log = <<>>

\* ("system", "internal") routed on a Running gateway whose table holds the
\* built-in routes
C2_Witness ==
    /\ Routed
    /\ last.pre = "Running"
    /\ last.key = "system_to_internal"
    /\ DOMAIN routing_table = DOMAIN BuiltinRoutes
    /\ last.kind = "return"

\* C3 (under SpecObservers): an observer that raises during route_message
\* does not change what route_message does: every emission is delivered to
\* every observer of its topic, in registration order, whether or not an
\* earlier one raised, and the caller gets exactly what the handler
\* returned or raised.
C3_ObserverFailuresSwallowed ==
    (Routed \/ Resumed) =>
        /\ \A i \in Positions("emit") :
              \A j \in 1..Len(event_handlers[log[i].topic]) : DeliveredTo(i, j)
        /\ \A i \in Positions("handler_returned") :
              last.kind = "return" /\ last.value = log[i].value
        /\ \A i \in Positions("handler_raised") :
              last.kind = "raise" /\ last.value = log[i].value
        /\ (last.pre = "Running" /\ last.kind = "raise") =>
              Positions("handler_raised") # {}

\* a raising observer on message_processed, followed by another observer,
\* in a route that returned the agent's response
C3_Witness ==
    /\ Routed
    /\ last.kind = "return"
    /\ last.value = AgentResponse
    /\ \E i \in Positions("observer") :
          /\ log[i].topic = "message_processed"
          /\ log[i].value = "raised"
          /\ i < Len(log)
          /\ log[i + 1].ev = "observer"
          /\ log[i + 1].value = "ok"

\* C4: when the handler of a registered route raises, route_message emits
\* error_occurred exactly once, fails to its caller with a RoutingError
\* wrapping the cause, and never emits message_processed.
C4_HandlerFailureIsRoutingError ==
    ((Routed \/ Resumed) /\ Positions("handler_raised") # {}) =>
        /\ Cardinality(Emissions("error_occurred")) = 1
        /\ last.kind = "raise"
        /\ \E i \in Positions("handler_raised") :
              last.value = "RoutingError: " \o log[i].value
        /\ Emissions("message_processed") = {}

\* C5: when the agent answers and store_interaction then fails, the caller
\* still gets the agent's response, message_processed is emitted and no
\* exception reaches the caller.
C5_StoreFailureOnlyLogged ==
    (Resumed /\ \E i \in Positions("store_interaction") :
                    log[i].value # "stored") =>
        /\ last.kind = "return"
        /\ last.value = AgentResponse
        /\ Emissions("message_processed") # {}

\* C6: routing ("channel", "agent") with {content, channel: c1, user_id: u1}
\* on a Running gateway that has a memory store, whose database is
\* reachable, and a default agent (the call that gets to await
\* store_interaction) returns the agent's response and persists one
\* Interaction with source c1 and user_id u1, which
\* get_recent_interactions(user_id = u1, limit = 1) then returns.
C6_RoutedChatIsPersisted ==
    (/\ Resumed
     /\ last.key = "channel_to_agent"
     /\ last.message_data = ChatMessage
     /\ \A i \in Positions("store_interaction") :
           log[i].value # "OperationalError") =>
        /\ last.kind = "return"
        /\ last.value = AgentResponse
        /\ \A recent \in GetRecentInteractionsForUser("u1", 1) :
              /\ Len(recent) = 1
              /\ recent[1].source = "c1"
              /\ recent[1].user_id = "u1"

\* C10: in one route_message call on a registered route, message_received
\* is delivered to all its observers before the handler is invoked,
\* message_processed is emitted only after the handler has returned (and
\* after any store_interaction), and the delivery of message_processed is
\* the last thing done before a result is returned.
C10_EventOrder ==
    /\ (Routed /\ log # <<>>) =>
          /\ Emissions("message_received") = {1}
          /\ Positions("handler") = {EndOfEmission(1) + 1}
    /\ ((Routed \/ Resumed) /\ log # <<>>) =>
          /\ \A p \in Emissions("message_processed") :
                /\ \E q \in Positions("handler_returned") : q < p
                /\ \A q \in Positions("handler")
                            \cup Positions("store_interaction")
                            \cup Positions("process_message")
                            \cup Positions("send_message") : q < p
                /\ EndOfEmission(p) = Len(log)
          /\ last.kind = "return" <=> Emissions("message_processed") # {}
          /\ Cardinality(Emissions("message_processed")) <= 1

\* a reply delivered to a channel, with a caller's observer on
\* message_received and the default ones on every topic
C10_Witness ==
    /\ Routed
    /\ last.key = "agent_to_channel"
    /\ last.value = SendSuccess
    /\ Len(event_handlers["message_received"]) = 2
    /\ Emissions("agent_response") # {}
    /\ Emissions("message_processed") # {}

----------------------------------------------------------------------------
(* Properties of the lifecycle *)

\* C7: the lifecycle moves only Uninitialized -> Initialized -> Running,
\* with Stopped reached from Initialized or Running, and Stopped is
\* terminal: no operation leaves it.
C7_StoppedIsTerminal ==
    [][LifecycleState' # LifecycleState =>
          <<LifecycleState, LifecycleState'>> \in
              { <<"Uninitialized", "Initialized">>,
                <<"Initialized", "Running">>,
                <<"Initialized", "Stopped">>,
                <<"Running", "Stopped">> }]_vars

\* C8: start() called in a state other than Initialized fails, leaves the
\* lifecycle state as it was and does not start channel listening.
C8_StartOnlyFromInitialized ==
    (last.op = "start" /\ last.pre # "Initialized") =>
        /\ last.kind = "raise"
        /\ LifecycleState = last.pre
        /\ log = <<>>

\* C9: initialize() called in a state other than Uninitialized is rejected,
\* and each built-in default observer is registered exactly once.
C9_InitializeOnlyOnce ==
    /\ (last.op = "initialize" /\ last.pre # "Uninitialized") =>
          last.kind = "raise"
    /\ \A t \in BuiltinTopics :
          CountIn(event_handlers[t], DefaultHandler(t)) <= 1

----------------------------------------------------------------------------
(* Properties of the routes *)

\* a route that went through the table of a Running gateway to the handler
\* registered for `key`
RoutedOn(key) ==
    /\ Routed
    /\ last.pre = "Running"
    /\ last.key = key
    /\ key \in DOMAIN routing_table

\* C12: once initialize() has completed, the routing table holds a handler
\* for each of the three built-in keys, and no operation other than
\* initialize() changes the table.
C12_RoutingTableReadOnly ==
    [][initialized' =>
          /\ DOMAIN BuiltinRoutes \subseteq DOMAIN routing_table'
          /\ (initialized /\ last'.op # "initialize")
                => routing_table' = routing_table]_vars

\* C13: route_message("system", "internal", payload of type
\* system_notification) on a Running, initialized gateway reaches the
\* internal-message handler and returns the sub-handler's result.
C13_SystemNotificationDispatched ==
    (/\ Routed
     /\ last.pre = "Running"
     /\ last.key = RouteKey("system", "internal")
     /\ DOMAIN routing_table = DOMAIN BuiltinRoutes
     /\ last.message_data.type = "system_notification") =>
        /\ last.kind = "return"
        /\ last.value = "notification_processed"
        /\ \E i \in Positions("handler") :
              log[i].who = "_route_internal_message"

\* C14: a channel_to_agent route for which no agent is resolved (the agent
\* manager has no default agent id, or the default agent was removed)
\* returns None without raising, emits no error_occurred and calls neither
\* the agent nor store_interaction.
C14_NoAgentIsNoOp ==
    (/\ RoutedOn("channel_to_agent")
     /\ agent_manager # None
     /\ (agent_manager = AgentManagerNew \/ default_agent_id \notin agents)) =>
        /\ last.kind = "return"
        /\ last.value = None
        /\ Emissions("error_occurred") = {}
        /\ Positions("process_message") = {}
        /\ Positions("store_interaction") = {}

\* the default agent removed, a memory store attached, a chat message routed
C14_Witness ==
    /\ RoutedOn("channel_to_agent")
    /\ agent_manager = AgentManagerRef
    /\ memory_manager # None
    /\ default_agent_id \notin agents
    /\ last.message_data = ChatMessage
    /\ last.kind = "return"
    /\ Emissions("message_processed") # {}

\* C15: an agent_to_channel route whose payload has no channel_id returns
\* None without raising, performs no send and emits no agent_response.
C15_NoChannelIdIsNoOp ==
    (/\ RoutedOn("agent_to_channel")
     /\ last.message_data.channel_id \in {Absent, None, ""}) =>
        /\ last.kind = "return"
        /\ last.value = None
        /\ Positions("send_message") = {}
        /\ Emissions("agent_response") = {}
        /\ Emissions("error_occurred") = {}

\* a reply without channel_id routed on a gateway that has a channel manager
C15_Witness ==
    /\ RoutedOn("agent_to_channel")
    /\ last.message_data = ReplyNoChannel
    /\ channel_manager # None
    /\ last.kind = "return"
    /\ Emissions("message_processed") # {}

\* C16 as stated: an agent_to_channel route whose payload carries a
\* channel_id performs exactly one send attempt, then emits agent_response
\* exactly once, before message_processed, and its outcome is a result, not
\* an exception.
C16_SendThenAgentResponse ==
    (/\ RoutedOn("agent_to_channel")
     /\ last.message_data.channel_id \notin {Absent, None, ""}) =>
        /\ Cardinality(Positions("send_message")) = 1
        /\ Cardinality(Emissions("agent_response")) = 1
        /\ \A i \in Positions("send_message"), j \in Emissions("agent_response") :
              /\ i < j
              /\ \E k \in Emissions("message_processed") : j < k
        /\ last.kind = "return"

\* C16 amended: with a channel manager attached, such a route performs
\* exactly one send attempt; when the attempt returns a result (success, or
\* success = false for an id that resolves to no channel) agent_response is
\* emitted exactly once after it and before message_processed, and the
\* result is returned; when the attempt raises, agent_response is not
\* emitted and the exception reaches the caller. Without a channel manager
\* nothing is sent or emitted and None is returned.
C16_SendThenAgentResponseIfSent ==
    (/\ RoutedOn("agent_to_channel")
     /\ last.message_data.channel_id \notin {Absent, None, ""}) =>
        IF channel_manager = None
        THEN /\ Positions("send_message") = {}
             /\ Emissions("agent_response") = {}
             /\ last.kind = "return" /\ last.value = None
        ELSE /\ Cardinality(Positions("send_message")) = 1
             /\ \A i \in Positions("send_message") :
                   IF log[i].value = "raised"
                   THEN /\ Emissions("agent_response") = {}
                        /\ last.kind = "raise"
                   ELSE /\ Emissions("agent_response") = {i + 1}
                        /\ \E k \in Emissions("message_processed") : i + 1 < k
                        /\ last.kind = "return"
                        /\ last.value = log[i].value
             /\ last.message_data.channel_id \notin Channels
                   => last.kind = "return" /\ last.value = SendNotFound

\* a reply for an id that resolves to no channel: the failure result is
\* returned after agent_response and message_processed
C16_Witness ==
    /\ RoutedOn("agent_to_channel")
    /\ last.message_data = ReplyUnknownChannel
    /\ last.value = SendNotFound
    /\ Emissions("agent_response") # {}
    /\ Emissions("message_processed") # {}

----------------------------------------------------------------------------
(* Properties of the observer lists *)

\* the observers the trace l shows invoked for the topic, in order
CalledOn(l, topic) ==
    LET calls == SelectSeq(l, LAMBDA e : e.ev = "observer" /\ e.topic = topic)
    IN  [i \in 1..Len(calls) |-> calls[i].who]

\* the observer list of a topic, empty for a topic that does not exist
ListOf(handlers, topic) ==
    IF topic \in DOMAIN handlers THEN handlers[topic] ELSE <<>>

\* C11: an emission on a topic invokes the observers registered on the topic
\* when the emission starts, each exactly once, in registration order; this
\* includes a topic created by a first registration.
C11_EmissionCallsRegisteredInOrder ==
    [][\A i \in {j \in 1..Len(log') : log'[j].ev = "emit"} :
          CalledOn(log', log'[i].topic)
              = ListOf(event_handlers, log'[i].topic)]_vars

\* C17: remove_event_handler(topic, callback) removes the first occurrence
\* of callback from the topic's list and keeps every other entry in place
\* and in order; for a callback that is not registered there, or a topic
\* that does not exist, it returns normally and changes no list.
C17_RemoveFirstOccurrenceOnly ==
    [][last'.op = "remove_event_handler" =>
          /\ last'.kind = "return"
          /\ LET topic == last'.key
                 old == ListOf(event_handlers, topic)
                 occurrences ==
                     IF log' = <<>> THEN {}
                     ELSE {i \in 1..Len(old) : old[i] = log'[1].who}
             IN  IF occurrences = {}
                 THEN event_handlers' = event_handlers
                 ELSE LET first == CHOOSE i \in occurrences :
                                      \A j \in occurrences : i <= j
                      IN  event_handlers' =
                             [event_handlers EXCEPT ![topic] =
                                 SubSeq(old, 1, first - 1)
                                 \o SubSeq(old, first + 1, Len(old))]]_vars

\* a callback registered twice on the created topic, removed once: its
\* second registration and the other observer are still there
C17_Witness ==
    /\ last.op = "remove_event_handler"
    /\ last.key = CustomTopic
    /\ log = <<Entry("list.remove", CustomTopic, "obs_ok", "removed")>>
    /\ event_handlers[CustomTopic] = <<"obs_raise", "obs_ok">>

----------------------------------------------------------------------------
(* MemoryManager claims, checked under SpecMemory *)

\* the interactions and the memory entries that reading a table gives
InteractionsIn(table) == {AsInteraction(r) : r \in table}

EntriesIn(table) == {AsMemoryEntry(r) : r \in table}

\* the list is ordered by timestamp, newest first
SortedDescending(result) ==
    \A i \in 1..(Len(result) - 1) :
        result[i].timestamp.t >= result[i + 1].timestamp.t

\* no interaction id is in the list twice
DistinctIds(result) ==
    \A i, j \in 1..Len(result) : i # j => result[i].id # result[j].id

\* C18: whatever was stored before, a get_recent_interactions call with no
\* user filter and limit n >= 0, made with the database reachable, returns
\* a list sorted by timestamp descending, of at most n entries, with no
\* interaction id twice.
C18_RecentSortedBoundedDistinct ==
    \A t \in Tasks :
        ( /\ tasks[t].op = "get" /\ tasks[t].pc = "done"
          /\ tasks[t].user_id = None /\ tasks[t].db_ok )
        => /\ tasks[t].kind = "return"
           /\ SortedDescending(tasks[t].result)
           /\ Len(tasks[t].result) <= tasks[t].limit
           /\ DistinctIds(tasks[t].result)

\* C19: in every state calls of store_interaction and
\* get_recent_interactions can observe, whatever their interleaving, the
\* recency cache holds at most 100 interactions.
C19_CacheNeverOverCapacity == Len(interaction_cache) <= CacheCapacity

\* the step of task t that ends the INSERT and commit of its
\* store_interaction call
WriteStep(t) ==
    /\ tasks[t].op = "store" /\ tasks[t].pc = "insert"
    /\ tasks'[t].pc # "insert"

\* the durable write of task t fails: the database is unreachable, or the
\* table already holds a row with the id, which is not NULL
DurableWriteFails(t) ==
    \/ ~tasks'[t].db_ok
    \/ /\ tasks[t].interaction.id # None
       /\ \E i \in interactions : i.id = tasks[t].interaction.id
       /\ ~TimestampIsoformatFails(tasks[t].interaction.timestamp)

\* C20: when the durable write of a store_interaction call fails (the
\* database unreachable, or the id already stored), the call ends there by
\* raising the database's error to its caller, without another attempt,
\* and the interactions table and the recency cache are left as they were.
C20_FailedWriteChangesNothing ==
    [][ \A t \in Tasks :
          (WriteStep(t) /\ DurableWriteFails(t))
          => /\ tasks'[t].pc = "done"
             /\ tasks'[t].kind = "raise"
             /\ tasks'[t].value \in {"OperationalError", "IntegrityError"}
             /\ interactions' = interactions
             /\ interaction_cache' = interaction_cache ]_vars

\* a store_interaction call ended with IntegrityError for an id the table
\* holds and the cache does not hold
C20_Witness ==
    \E t \in Tasks :
        /\ tasks[t].op = "store" /\ tasks[t].pc = "done"
        /\ tasks[t].kind = "raise" /\ tasks[t].value = "IntegrityError"
        /\ \E i \in interactions : i.id = tasks[t].interaction.id
        /\ \A k \in 1..Len(interaction_cache) :
               interaction_cache[k].id # tasks[t].interaction.id

----------------------------------------------------------------------------
(* Memory entry claims, checked under SpecEntries *)

\* C21: in every state, after initialize() on whatever the database holds
\* and after any store_memory and cleanup_expired_entries calls, every entry
\* of the important-entry cache has an importance above 0.7.
C21_CacheHoldsOnlyImportant ==
    \A k \in 1..Len(memory_cache) :
        memory_cache[k].importance > ImportantThreshold

\* the entry is in the list
InResults(entry, results) == \E k \in 1..Len(results) : results[k] = entry

\* C22: a search_memory call made while the database is unavailable, whose
\* query matches an important entry stored before and held by the cache,
\* does not fail and returns that entry (when the cache hits fit in the
\* limit).
C22_SearchServedFromCacheWhenDown ==
    \A t \in Tasks :
        \A k \in 1..Len(tasks[t].cached) :
            ( /\ tasks[t].op = "search_memory" /\ tasks[t].pc = "done"
              /\ ~tasks[t].db_ok
              /\ IsImportant(tasks[t].cached[k])
              /\ tasks[t].cached[k] \in EntriesIn(memory_entries) )
            => /\ tasks[t].kind = "return"
               /\ Len(tasks[t].cached) <= tasks[t].limit
                  => InResults(tasks[t].cached[k], tasks[t].result)

\* the entry's expires_at is set and before the time `now`
ExpiredAt(entry, now) ==
    entry.expires_at.type # "absent" /\ entry.expires_at.t < now

\* C23: no entry search_memory returns has an expires_at that is set and
\* was already past when the call was made, whether it came from the cache
\* or from the database and whether cleanup has run or not.
C23_SearchReturnsNoExpiredEntry ==
    \A t \in Tasks :
        ( /\ tasks[t].op = "search_memory" /\ tasks[t].pc = "done"
          /\ tasks[t].kind = "return" )
        => \A k \in 1..Len(tasks[t].result) :
               ~ExpiredAt(tasks[t].result[k], tasks[t].now)

\* the step with which a cleanup_expired_entries call of task t returns
CleanupReturns(t) ==
    /\ tasks'[t].op = "cleanup_expired_entries"
    /\ tasks'[t].pc = "done" /\ tasks'[t].kind = "return"
    /\ tasks[t] # tasks'[t]

\* C24: a cleanup_expired_entries call that returns has removed, from the
\* table and from the cache, all and only the entries whose expires_at is
\* set and strictly before the time of the call, compared at the resolution
\* expires_at is stored with.
C24_CleanupRemovesExactlyExpired ==
    [][ \A t \in Tasks :
          /\ CleanupReturns(t)
             => /\ memory_entries' =
                     {r \in memory_entries : ~ExpiredAt(r, tasks'[t].now)}
                /\ \A k \in 1..Len(memory_cache') :
                       ~ExpiredAt(memory_cache'[k], tasks'[t].now)
          /\ (tasks[t].op = "cleanup_expired_entries" /\ tasks[t].pc = "delete")
             => \A k \in 1..Len(memory_cache) :
                    InResults(memory_cache[k], memory_cache')
                    \/ ExpiredAt(memory_cache[k], tasks[t].now) ]_vars

\* the step with which a cleanup_expired_entries call of task t fails
CleanupFails(t) ==
    /\ tasks'[t].op = "cleanup_expired_entries"
    /\ tasks'[t].pc = "done" /\ tasks'[t].kind = "raise"
    /\ tasks[t] # tasks'[t]

\* C25: a cleanup_expired_entries call is all or nothing over the table
\* and the cache: when it fails at any step, the commit included, the table
\* and the cache hold what they held when it was called; when it returns,
\* no expired entry is left in either.
C25_CleanupAllOrNothing ==
    [][ \A t \in Tasks :
          /\ CleanupFails(t)
             => /\ memory_entries' = memory_entries
                /\ memory_cache' = tasks'[t].cached
          /\ ( /\ tasks[t].op = "cleanup_expired_entries"
               /\ tasks[t].pc \in {"delete", "commit"}
               /\ ~CleanupReturns(t) )
             => memory_entries' = memory_entries
          /\ CleanupReturns(t)
             => /\ \A r \in memory_entries' : ~ExpiredAt(r, tasks'[t].now)
                /\ \A k \in 1..Len(memory_cache') :
                       ~ExpiredAt(memory_cache'[k], tasks'[t].now) ]_vars

\* the step with which a search_memory call of task t ends
SearchEnds(t) ==
    /\ tasks[t].op = "search_memory" /\ tasks[t].pc = "select"
    /\ tasks'[t].pc = "done"

\* the stored entries, in the table or in the cache, a search is to find
MatchingStored(query, category) ==
    {r \in EntriesIn(memory_entries)
            \cup {memory_cache[k] : k \in 1..Len(memory_cache)} :
        CacheMatches(r, query, category)}

\* result is the first limit entries of an ordering of the set matching by
\* importance descending, then timestamp descending
FirstOfOrdering(result, matching, limit) ==
    /\ \A k \in 1..Len(result) : result[k] \in matching
    /\ DistinctIds(result)
    /\ Len(result) <= limit
    /\ Len(result) = limit \/ Len(result) = Cardinality(matching)
    /\ \A i, j \in 1..Len(result) : i < j => ~KeyGreater(result[j], result[i])
    /\ \A m \in matching :
          InResults(m, result) \/ \A k \in 1..Len(result) : ~KeyGreater(m, result[k])

\* C26: a search_memory call that reaches the database, the cache being as
\* it was scanned, returns exactly the first limit entries of the matching
\* stored entries ordered by importance descending and, among equal
\* importance, by timestamp descending.
C26_SearchReturnsTopOfOrdering ==
    [][ \A t \in Tasks :
          ( /\ SearchEnds(t)
            /\ tasks'[t].db_ok
            /\ tasks[t].cached = CacheHits(memory_cache, tasks[t].query, tasks[t].category) )
          => /\ tasks'[t].kind = "return"
             /\ FirstOfOrdering(tasks'[t].result,
                                MatchingStored(tasks[t].query, tasks[t].category),
                                tasks[t].limit) ]_vars

\* the entry store_memory makes of the request {category demo, content
\* "hello world", tags [greeting], importance 0.9}
IsDemoEntry(e) ==
    /\ e.category = "demo" /\ e.content = HelloWorld
    /\ e.tags = <<Greeting>> /\ e.importance = 9

\* C27: no search_memory result holds two entries of one id, also when an
\* entry is in the cache and in the table; and a search for "hello" that
\* reaches the database while the demo entry is the only entry stored
\* returns exactly that entry, with its id and importance 0.9.
C27_StoredOnceFoundOnce ==
    [][ \A t \in Tasks :
          /\ (SearchEnds(t) /\ tasks'[t].kind = "return")
             => DistinctIds(tasks'[t].result)
          /\ ( /\ SearchEnds(t)
               /\ tasks'[t].db_ok
               /\ tasks[t].query = Hello
               /\ tasks[t].cached = CacheHits(memory_cache, tasks[t].query, tasks[t].category) )
             => \A e \in memory_entries :
                   (memory_entries = {e} /\ IsDemoEntry(e))
                   => /\ tasks'[t].kind = "return"
                      /\ tasks'[t].result = <<AsMemoryEntry(e)>>
                      /\ tasks'[t].result[1].importance = 9 ]_vars

\* a search returned the demo entry once while the cache and the table
\* both hold it
C27_Witness ==
    \E t \in Tasks : \E e \in EntriesIn(memory_entries) :
        /\ IsDemoEntry(e)
        /\ InResults(e, memory_cache)
        /\ tasks[t].op = "search_memory" /\ tasks[t].pc = "done"
        /\ tasks[t].kind = "return"
        /\ tasks[t].cached = <<e>>
        /\ tasks[t].result = <<e>>

\* C28 (under SpecMemory): a get_recent_interactions call without user
\* filter that finds the database unavailable does not fail: it returns the
\* newest interactions of the cache, up to limit, also when the limit
\* exceeds the number of cached interactions.
C28_GetRecentDegradesToCache ==
    [][ \A t \in Tasks :
          ( /\ tasks[t].op = "get" /\ tasks[t].pc = "select_rest"
            /\ tasks'[t].pc = "done"
            /\ ~tasks'[t].db_ok )
          => /\ tasks'[t].kind = "return"
             /\ tasks'[t].result = tasks[t].cached
             /\ Len(tasks'[t].result) <= tasks[t].limit ]_vars

\* a step of a health_check call of task t
HealthChecked(t) ==
    /\ tasks'[t].op = "health_check"
    /\ tasks'[t] # tasks[t]

\* C29: health_check never raises: with the database reachable it returns
\* status "healthy" with the numbers of interactions and memory entries in
\* the database, each as its SELECT read it, and the size of the caches as
\* it is when the report is built; with a failure inside it returns a
\* report of status "error"; it changes no cache and no table.
C29_HealthCheckReportsAndNeverRaises ==
    [][ \A t \in Tasks :
          HealthChecked(t)
          => /\ tasks'[t].kind # "raise"
             /\ tasks'[t].pc = "count_entries"
                => tasks'[t].interaction_count = Cardinality(interactions)
             /\ tasks'[t].pc = "report"
                => /\ tasks'[t].memory_count = Cardinality(memory_entries)
                   /\ tasks'[t].interaction_count = tasks[t].interaction_count
             /\ tasks'[t].pc = "done"
                => /\ tasks'[t].kind = "return"
                   /\ Len(tasks'[t].result) = 1
                   /\ IF tasks'[t].db_ok
                      THEN /\ tasks'[t].result[1].status = "healthy"
                           /\ tasks'[t].result[1].interactions_count
                                  = tasks[t].interaction_count
                           /\ tasks'[t].result[1].memory_entries_count
                                  = tasks[t].memory_count
                           /\ tasks'[t].result[1].cache_size
                                  = Len(interaction_cache) + Len(memory_cache)
                      ELSE tasks'[t].result[1].status = "error"
             /\ UNCHANGED <<interactions, interaction_cache, memory_entries, memory_cache>> ]_vars

\* a health check reported a database and a cache that hold entries
C29_Witness ==
    \E t \in Tasks :
        /\ tasks[t].op = "health_check" /\ tasks[t].pc = "done"
        /\ tasks[t].kind = "return"
        /\ tasks[t].result[1].status = "healthy"
        /\ tasks[t].result[1].memory_entries_count = 2
        /\ tasks[t].result[1].cache_size = 1

\* C30: every entry in the table or in the important-entry cache has an
\* importance within [0.0, 1.0] (0..10 in tenths), whatever importance the
\* store_memory calls were given.
C30_ImportanceWithinUnitInterval ==
    /\ \A r \in memory_entries : r.importance \in 0..10
    /\ \A k \in 1..Len(memory_cache) : memory_cache[k].importance \in 0..10

----------------------------------------------------------------------------
(* Claims on stored records, checked under SpecStores *)

\* the records of a cache
Cached(cache) == {cache[k] : k \in 1..Len(cache)}

\* no two records of the set share an id
UniqueById(records) ==
    \A x, y \in records : x.id = y.id => x = y

\* every record of before that after still has under its id is unchanged
Unmutated(before, after) ==
    \A x \in before, y \in after : x.id = y.id => x = y

\* C31: no two interactions and no two memory entries in the database
\* share an id, no step changes a field of a record held by a table or a
\* cache, and a store_interaction or store_memory call whose id is already
\* in the table fails and leaves the tables and both caches as they were.
C31_RecordsUniqueAndNeverMutated ==
    [][ /\ UniqueById(interactions') /\ UniqueById(memory_entries')
        /\ Unmutated(InteractionsIn(interactions)
                        \cup Cached(interaction_cache),
                     InteractionsIn(interactions')
                        \cup Cached(interaction_cache'))
        /\ Unmutated(EntriesIn(memory_entries) \cup Cached(memory_cache),
                     EntriesIn(memory_entries') \cup Cached(memory_cache'))
        /\ \A t \in Tasks :
              /\ ( /\ tasks[t].op = "store" /\ tasks[t].pc = "insert"
                   /\ tasks'[t].pc # "insert"
                   /\ \E r \in interactions : r.id = tasks[t].interaction.id )
                 => /\ tasks'[t].pc = "done" /\ tasks'[t].kind = "raise"
                    /\ UNCHANGED <<interactions, interaction_cache,
                                   memory_entries, memory_cache>>
              /\ ( /\ tasks[t].op = "store_memory" /\ tasks[t].pc = "insert"
                   /\ tasks'[t].pc # "insert"
                   /\ \E r \in memory_entries : r.id = tasks[t].entry.id )
                 => /\ tasks'[t].pc = "done" /\ tasks'[t].kind = "raise"
                    /\ UNCHANGED <<interactions, interaction_cache,
                                   memory_entries, memory_cache>> ]_vars

----------------------------------------------------------------------------
(* Gateway.health_check, checked under SpecHealth *)

\* the component reports of the trace name who
ReportsOf(trace, who) ==
    {k \in 1..Len(trace) : trace[k].ev = "component_health" /\ trace[k].who = who}

\* the status a gateway in the given lifecycle state reports
StatusIn(state) == IF state = "Running" THEN "healthy" ELSE "stopped"

\* C33: Gateway.health_check returns in every lifecycle state, also before
\* initialize() with no component attached; it reports 'healthy' exactly
\* when the gateway is Running and 'stopped' otherwise, with one component
\* report for each attached component and none for the others, and it
\* changes no gateway state.  (The call asks the components in one step; it
\* returns in that step or, with a memory manager, when the manager's
\* report has come in, and then returns the status of the state it was
\* called in.)
C33_GatewayHealthCheck ==
    [][ /\ last'.op = "health_check"
           => /\ Cardinality(ReportsOf(log', "channel_manager"))
                    = (IF channel_manager = None THEN 0 ELSE 1)
              /\ Cardinality(ReportsOf(log', "agent_manager"))
                    = (IF agent_manager = None THEN 0 ELSE 1)
              /\ Cardinality(ReportsOf(log', "memory_manager"))
                    = (IF memory_manager = None THEN 0 ELSE 1)
              /\ Len(log') = Cardinality(ReportsOf(log', "channel_manager"))
                             + Cardinality(ReportsOf(log', "agent_manager"))
                             + Cardinality(ReportsOf(log', "memory_manager"))
              /\ IF memory_manager = None
                 THEN /\ last'.kind = "return"
                      /\ last'.value = StatusIn(LifecycleState)
                 ELSE /\ last'.kind = "await"
                      /\ \E t \in Tasks :
                            /\ tasks[t].pc \in {"idle", "done"}
                            /\ tasks'[t].op = "Gateway.health_check"
                            /\ tasks'[t].pc = "health"
                            /\ tasks'[t].value = StatusIn(LifecycleState)
              /\ UNCHANGED <<gwVars, agents>>
        /\ last'.op = "health_resume"
           => /\ last'.kind = "return"
              /\ \E t \in Tasks :
                    /\ tasks[t].op = "Gateway.health_check"
                    /\ tasks[t].pc = "health"
                    /\ tasks'[t] = IdleTask
                    /\ last'.value = tasks[t].value
              /\ UNCHANGED <<gwVars, agents>> ]_vars

\* a health check of a Running gateway with all three components attached,
\* returned after the memory manager's report
C33_Witness ==
    /\ last.op = "health_resume" /\ last.kind = "return"
    /\ last.pre = "Running" /\ last.value = "healthy"
    /\ memory_manager # None

----------------------------------------------------------------------------
(* Registration followed by removal, checked under SpecEvents *)

\* the step is remove_event_handler(topic, h) right after
\* register_event_handler(topic, h)
RemovesJustRegistered ==
    /\ last.op = "register_event_handler"
    /\ last'.op = "remove_event_handler"
    /\ last'.key = last.key
    /\ log' # <<>>
    /\ log'[1].who = event_handlers[last.key][Len(event_handlers[last.key])]

\* the list without its last entry: the list before the registration
BeforeRegistration(seq) == SubSeq(seq, 1, Len(seq) - 1)

\* h is not in the list, or only at its end
OnlyTrailing(seq, h) ==
    \A i, j \in 1..Len(seq) : (seq[i] = h /\ i < j) => seq[j] = h

\* C39 as stated: register_event_handler(topic, h) immediately followed by
\* remove_event_handler(topic, h) leaves the topic's list with the contents
\* and the order it had before the two calls, whatever the list was, also
\* when h was already registered.
C39_RegisterThenRemoveRestores ==
    [][ RemovesJustRegistered
        => ListOf(event_handlers', last.key)
             = BeforeRegistration(event_handlers[last.key]) ]_vars

\* C39 amended: registration appends; the removal right after it restores
\* the list when h was not registered before or stood only at the end of
\* the list; when an earlier h is followed by another observer, that
\* earlier registration is the one removed and h ends at the end of the
\* list, the other observers keeping their order.
C39_RegisterThenRemoveRestoresUnlessEarlier ==
    [][ /\ last'.op = "register_event_handler"
           => \E h \in EventObservers :
                 event_handlers'[last'.key]
                    = Append(ListOf(event_handlers, last'.key), h)
        /\ RemovesJustRegistered
           => LET h == log'[1].who
                  before == BeforeRegistration(event_handlers[last.key])
              IN  IF OnlyTrailing(before, h)
                  THEN event_handlers'[last.key] = before
                  ELSE /\ event_handlers'[last.key] # before
                       /\ event_handlers'[last.key][Len(before)] = h
                       /\ \A x \in EventObservers \cup {DefaultHandler(last.key)} :
                             CountIn(event_handlers'[last.key], x) = CountIn(before, x)
                       /\ SelectSeq(event_handlers'[last.key], LAMBDA x : x # h)
                             = SelectSeq(before, LAMBDA x : x # h) ]_vars

\* an observer registered a second time and removed at once: its first
\* registration went, it now stands behind the other observer
C39_Witness ==
    /\ last.op = "remove_event_handler"
    /\ last.key = CustomTopic
    /\ log = <<Entry("list.remove", CustomTopic, "obs_raise", "removed")>>
    /\ event_handlers[CustomTopic] = <<"obs_ok", "obs_raise">>

\* the number of invocations of observer who in the trace
Invocations(trace, who) ==
    Cardinality({k \in 1..Len(trace) :
                    trace[k].ev = "observer" /\ trace[k].who = who})

\* C34 (under SpecEvents): when an observer is removed from a topic while
\* an emission on the topic is in progress, here by the observer that
\* unregisters itself when invoked, every other observer registered when
\* the emission started is invoked in it exactly once for each of its
\* registrations: none is skipped, none invoked twice.
C34_RemovalDuringEmissionSkipsNobody ==
    [][ (last'.op = "_emit_event" /\ last'.key \in DOMAIN event_handlers)
        => \A x \in (EventObservers \cup {DefaultHandler(last'.key)}) \ {OnceObserver} :
              Invocations(log', x) = CountIn(event_handlers[last'.key], x) ]_vars

----------------------------------------------------------------------------
(* Routing claims, checked under SpecRouting and SpecRoutingFair *)

\* C32 (under SpecRoutingFair): a route_message call whose handler waits
\* for an external channel call that never completes does not wait for
\* ever: it ends, failing with RoutingTimeoutError.
C32_BlockedRouteTimesOut ==
    \A t \in Tasks :
        (tasks[t].op = "route_message" /\ tasks[t].pc = "blocked")
        ~> ( /\ tasks[t].pc # "blocked"
             /\ last.key = "agent_to_channel"
             /\ last.kind = "raise"
             /\ last.value = "RoutingTimeoutError" )

\* C35: a route_message call that passed the running check and is resumed
\* after stop() or shutdown() ran does not fail on an emptied routing table
\* (KeyError of the lookup) or on a component reference that was cleared
\* (AttributeError on an agent manager that is None).
C35_InFlightRouteSurvivesShutdown ==
    [][ (last'.op = "route_resume" /\ last'.kind = "raise")
        => /\ last'.value # "KeyError"
           /\ last'.value = "AttributeError" => agent_manager # None ]_vars

----------------------------------------------------------------------------
(* Recency cache claims, checked under SpecMemory *)

\* the step with which a get_recent_interactions call of task t without
\* user filter ends, no other call being in flight
GetEnds(t) ==
    /\ tasks'[t].op = "get" /\ tasks'[t].pc = "done"
    /\ tasks'[t].user_id = None
    /\ tasks'[t] # tasks[t]
    /\ \A u \in Tasks \ {t} : tasks[u].pc \in {"idle", "done"}

\* result lists n newest rows of the table, all of them when it has fewer,
\* newest first
NewestOfTable(result, table, n) ==
    /\ \A k \in 1..Len(result) : result[k] \in InteractionsIn(table)
    /\ DistinctIds(result)
    /\ SortedDescending(result)
    /\ Len(result) = (IF Cardinality(table) < n THEN Cardinality(table) ELSE n)
    /\ \A r \in InteractionsIn(table) :
          (\E k \in 1..Len(result) : result[k] = r)
          \/ \A k \in 1..Len(result) : r.timestamp.t <= result[k].timestamp.t

\* C36: in every state reached by initialize, store_interaction and close,
\* a get_recent_interactions call without user filter and with limit n that
\* reaches the database as far as it needs it returns exactly the n newest
\* interactions of the table, as a reading of the table alone would.
C36_GetRecentEqualsTableRead ==
    [][ \A t \in Tasks :
          (GetEnds(t) /\ tasks'[t].db_ok)
          => /\ tasks'[t].kind = "return"
             /\ NewestOfTable(tasks'[t].result, interactions, tasks'[t].limit) ]_vars

\* C37: when the cache insert of a store_interaction call brings the
\* recency cache above 100 entries, the call leaves the cache with the 100
\* newest by timestamp of its previous entries and the new one: whatever
\* was evicted, the new entry possibly, is no newer than anything kept.
C37_EvictsOldestByTimestamp ==
    [][ \A t \in Tasks :
          ( /\ tasks[t].op = "store" /\ tasks[t].pc = "cache"
            /\ tasks'[t].pc = "done"
            /\ Cardinality(Cached(interaction_cache) \cup {tasks[t].interaction})
                  > CacheCapacity )
          => LET pool == Cached(interaction_cache) \cup {tasks[t].interaction}
                 kept == Cached(interaction_cache')
             IN  /\ Len(interaction_cache') = CacheCapacity
                 /\ kept \subseteq pool
                 /\ \A x \in pool \ kept : \A y \in kept :
                        x.timestamp.t <= y.timestamp.t ]_vars

\* the ids of the records
Ids(records) == {r.id : r \in records}

\* C38 (under SpecStores): in every reachable state, also after failed
\* store_interaction, store_memory or cleanup_expired_entries calls, each id
\* in the recency cache is the id of an interaction in the table and each
\* id in the important-entry cache is the id of a memory entry in the table.
C38_CachesHoldOnlyStoredRecords ==
    /\ Ids(Cached(interaction_cache)) \subseteq Ids(interactions)
    /\ Ids(Cached(memory_cache)) \subseteq Ids(memory_entries)

----------------------------------------------------------------------------
(* The two tiers of search_memory, checked under SpecSearch *)

\* a and b differ in id, timestamp and importance only, a above the
\* threshold of the cache and b not
Twins(a, b) ==
    /\ a.content = b.content /\ a.tags = b.tags
    /\ a.category = b.category /\ a.expires_at = b.expires_at
    /\ IsImportant(a) /\ ~IsImportant(b)

\* C40 (under SpecSearch): whether search_memory returns an entry does not
\* depend on its importance or on its being cached: when a search returns
\* with a limit that cuts nothing off, two stored entries that differ in
\* importance only, one above 0.7 and one not, are both among the results
\* or both absent from them.
C40_TiersSelectTheSameEntries ==
    [][ \A t \in Tasks :
          ( /\ SearchEnds(t) /\ tasks'[t].kind = "return"
            /\ Cardinality(memory_entries) <= tasks[t].limit )
          => \A a, b \in EntriesIn(memory_entries) :
                Twins(a, b) => ( InResults(a, tasks'[t].result)
                                 <=> InResults(b, tasks'[t].result) ) ]_vars
====
